---- MODULE Spec2Model ----
(***************************************************************************)
(* A model of the agent execution engine and the MCP tool-server           *)
(* supervisor of sirenko-project-bot.                                      *)
(*                                                                         *)
(*   SpecApproval  the approval callbacks (bot/handlers/approvals.py),     *)
(*                 the approval_requests table (db/queries.py) and         *)
(*                 AgentCore.execute_approved_tool                         *)
(*   SpecRun       one invocation of AgentCore.run (agent/core.py)         *)
(*   SpecMcp       MCPManager start/stop/refcount (mcp/manager.py)         *)
(*                                                                         *)
(* The three specifications share the variables; each leaves the other     *)
(* subsystems' variables unchanged.                                        *)
(***************************************************************************)
EXTENDS Integers, Sequences, FiniteSets, TLC

\* ------------------------------------------------------------------ bounds
\* rows of approval_requests that handle_query may create
MaxApprovals == 1
\* approve:/reject: callback updates the dispatcher handles as concurrent tasks
MaxCallbacks == 2

ApprovalIds == 1..MaxApprovals
Callbacks == 1..MaxCallbacks

\* ------------------------------------------------------- tool vocabulary
\* A tool name is a sequence of tokens so that str.startswith is IsPrefix and
\* `prefix + name` is concatenation; the string itself is the tokens joined.
IsPrefix(p, s) == Len(p) <= Len(s) /\ SubSeq(s, 1, Len(p)) = p

\* ---------------------------------------------------------------- messages
\* A conversation turn as the engine sees it: role, the kind of its content
\* (plain text, the assistant's tool_use blocks, the user's tool_result
\* blocks), the provider round that produced it and its estimated tokens.
Turn(role, kind, round, tokens) ==
    [role |-> role, kind |-> kind, round |-> round, tokens |-> tokens]

VARIABLES
    \* --- approval_requests table and approval callbacks
    status,        \* approval id -> "none" | "pending" | "approved" | "rejected"
    context,       \* approval id -> conversation_context (the message snapshot)
    cb,            \* callback task -> its local state
    toolExec,      \* approval id -> number of MCPManager.call_tool dispatches
    claudeCalls,   \* approval id -> number of provider calls made on resume
    \* --- one invocation of AgentCore.run
    project,           \* settings.projects[project_id]: instance types, phase
    user_tokens,       \* estimated tokens of the user message
    rpc,               \* position of the run
    classification,    \* RequestClassification
    iteration,         \* the for loop's index
    total_input,
    total_output,
    messages,
    anthropic_tools,   \* names of the tools offered to the provider
    approval_list,
    stop_reason,       \* of the latest response of the loop
    tool_blocks,       \* tool_use blocks of the response not yet processed
    tool_results,      \* names of the blocks executed in this round, in order
    pending_approval,
    calls,             \* provider calls made: [loop, final, simple]
    over_at,           \* the round after whose call the budget was first exceeded
    db_log,            \* save_message / track_cost calls, in order
    result_blocks,     \* the round's tool_results list: tool_result blocks so far
    last_user_turn,    \* tool_use ids of messages[-1] while it is a tool_result turn
    \* --- MCPManager, ToolRegistry and the tool-server processes
    projects,          \* keys of settings.projects
    mcp_services,      \* project -> instance ids (ProjectConfig.mcp_services)
    mcp_instances,     \* global_config.mcp_instances: instance id -> config
    instances,         \* MCPManager.instances: instance id -> client (or NoClient)
    refcount,          \* MCPManager._instance_refcount: instance id -> project ids
    orphaned_stacks,   \* MCPManager._orphaned_stacks: processes they hold open
    reg_instances,     \* ToolRegistry._instances: registered instance ids
    tool_to_client,    \* ToolRegistry._tool_to_client: name -> instance id
    all_tools,         \* ToolRegistry._all_tools: names
    live,              \* tool-server processes spawned and not yet closed
    spawned,           \* tool-server processes spawned so far
    start_tasks,       \* projects with a background start_project task pending
    lifecycle,         \* "boot" before start_all, "up", "down" after stop_all
    last_call,         \* the latest MCPManager.call_tool: what it resolved and did
    \* --- one call of a context function (trim_messages, maybe_summarize)
    fpc,               \* "idle" | "called" | "returned"
    arg_messages,      \* the messages argument
    arg_max_tokens,    \* trim_messages: the max_tokens argument
    returned,          \* the list returned
    summarizer_calls,  \* maybe_summarize: client.messages.create calls made
    summaries,         \* maybe_summarize: rows inserted in conversation_summaries
    \* --- one call of classifier.classify_request
    reply,             \* what the classifier model call produced
    available_categories,  \* the available_categories argument
    classified,        \* the RequestClassification returned
    \* --- run, step 3: the tools offered after a classification
    sel_project,       \* the project: types of its registered instances, phase
    selected,          \* step 3 has run
    offered,           \* anthropic_tools: names of the tools offered
    \* --- one call of AgentCore._call_claude
    cc_pc,             \* "idle" | "try" | "refresh" | "retry" | "returned" | "raised"
                       \* | "returned_none"
    attempt,           \* the loop variable of the retry loop
    has_refresher,     \* self._refresher is set
    creates,           \* client.messages.create calls made
    caught,            \* errors the create of the loop raised, in order
    sleeps,            \* the asyncio.sleep waits, in order
    refreshes,         \* _refresh_and_recreate_client calls made
    rebuilds,          \* times self.client was recreated
    retries,           \* create calls made after a refresh
    surfaced,          \* the error that left the function, or "none"
    \* --- one tool_result content built from a tool result text
    tr_pc,             \* "idle" | "done"
    result_text,       \* the text given to _truncate_tool_result, as characters
    max_chars,         \* the max_chars argument
    site,              \* "call" | "run" | "execute_approved_tool": who truncated
    tool_result_content,\* the text returned: the content of the tool_result
    \* --- the tasks that run MCPManager operations, and its lock
    lock,              \* MCPManager._lock: "free" or the operation holding it
    sp,                \* the start_project task at its await, or idle
    ct,                \* the call_tool awaiting client.reconnect(), or idle
    sa,                \* stop_all in its disconnect loop, or idle
    last_mutation,     \* the latest change of instances, reference sets or registry
    ops,               \* stop_project and call_tool calls made
    \* --- concurrent _call_claude calls sharing one OAuthRefresher
    rf_pc,             \* caller -> "idle" | "calling" | "waiting" | "posting" | "retry" | "returned" | "raised"
    sent_with,         \* caller -> generation of the access token its create was sent with
    rf_lock,           \* OAuthRefresher._lock: "free" or the caller holding it
    auth_token,        \* settings.anthropic_auth_token: generation (0 is the expired one)
    refresh_token,     \* settings.anthropic_refresh_token is set
    posts,             \* POST requests made to the token endpoint
    \* --- one tool_use block of AgentCore.run
    tool_block,        \* the block run handled last: project, phase, name, allowed set, gated
    \* --- a run paused at the approval gate and its resumption
    rs_pc,             \* "idle" | "paused" | "stored" | "restored" | "tool_done" | "sent"
    rs_messages,       \* the message list in hand: run's messages, then the restored snapshot
    rs_pending,        \* PendingApproval: tool_name and tool_use_id
    rs_context,        \* approval_requests.conversation_context of the row
    rs_sent,           \* the message list given to the provider by execute_approved_tool
    \* --- the start operations of MCPManager and their failures
    st_log,            \* the latest start_all / start_project: what it attempted and how it ended
    ever_failed,       \* instance ids whose start has failed in an earlier operation
    \* --- the conversations table and the runs that read and extend it
    rows,              \* conversations rows of the project, oldest first
    h_pc,              \* "idle" | "loop": the run is between provider calls of its loop
    h_messages,        \* the run's messages list
    h_user,            \* estimated tokens of the run's user message
    h_sent,            \* the latest message list passed to the provider
    h_pending,         \* the approval row: "none" | "pending" | "approved" | "rejected"
    h_runs,            \* runs started
    h_rounds           \* tool rounds of the current run

apprVars == <<status, context, cb, toolExec, claudeCalls>>
runVars == <<project, user_tokens, rpc, classification, iteration, total_input,
             total_output, messages, anthropic_tools, approval_list, stop_reason,
             tool_blocks, tool_results, pending_approval, calls, over_at, db_log,
             result_blocks, last_user_turn>>
toolVars == <<result_blocks, last_user_turn>>
mcpVars == <<projects, mcp_services, mcp_instances, instances, refcount, orphaned_stacks,
             reg_instances, tool_to_client, all_tools, live, spawned,
             start_tasks, lifecycle>>
callVars == <<last_call>>
ctxVars == <<fpc, arg_messages, arg_max_tokens, returned, summarizer_calls,
             summaries>>
clsVars == <<reply, available_categories, classified>>
selVars == <<sel_project, selected, offered>>
ccVars == <<cc_pc, attempt, has_refresher, creates, caught, sleeps, refreshes,
            rebuilds, retries, surfaced>>
truncVars == <<tr_pc, result_text, max_chars, site, tool_result_content>>
lockVars == <<lock, sp, ct, sa, last_mutation, ops>>
refVars == <<rf_pc, sent_with, rf_lock, auth_token, refresh_token, posts>>
blockVars == <<tool_block>>
resumeVars == <<rs_pc, rs_messages, rs_pending, rs_context, rs_sent>>
startVars == <<st_log, ever_failed>>
histVars == <<rows, h_pc, h_messages, h_user, h_sent, h_pending, h_runs, h_rounds>>
vars == <<apprVars, runVars, mcpVars, callVars, ctxVars, clsVars, selVars, ccVars, truncVars, lockVars, refVars, blockVars, resumeVars, startVars, histVars>>
nonApprVars == <<runVars, mcpVars, callVars, ctxVars, clsVars, selVars, ccVars, truncVars, lockVars, refVars, blockVars, resumeVars, startVars, histVars>>
nonRunVars == <<cb, toolExec, claudeCalls, mcpVars, callVars, ctxVars, clsVars, selVars, ccVars, truncVars, lockVars, refVars, blockVars, resumeVars, startVars, histVars>>
nonMcpVars == <<apprVars, runVars, callVars, ctxVars, clsVars, selVars, ccVars, truncVars, lockVars, refVars, blockVars, resumeVars, startVars, histVars>>
nonCtxVars == <<apprVars, runVars, mcpVars, callVars, clsVars, selVars, ccVars, truncVars, lockVars, refVars, blockVars, resumeVars, startVars, histVars>>
nonClsVars == <<apprVars, runVars, mcpVars, callVars, ctxVars, selVars, ccVars, truncVars, lockVars, refVars, blockVars, resumeVars, startVars, histVars>>
nonMcpCallVars == <<apprVars, runVars, ctxVars, clsVars, selVars, ccVars, truncVars, lockVars, refVars, blockVars, resumeVars, startVars, histVars>>
nonSelVars == <<apprVars, runVars, mcpVars, callVars, ctxVars, clsVars, ccVars, truncVars, lockVars, refVars, blockVars, resumeVars, startVars, histVars>>
nonCcVars == <<apprVars, runVars, mcpVars, callVars, ctxVars, clsVars, selVars, truncVars, lockVars, refVars, blockVars, resumeVars, startVars, histVars>>
nonTruncVars == <<apprVars, runVars, mcpVars, callVars, ctxVars, clsVars, selVars, ccVars, lockVars, refVars, blockVars, resumeVars, startVars, histVars>>
nonLockVars == <<apprVars, runVars, mcpVars, callVars, ctxVars, clsVars, selVars,
                 ccVars, truncVars, refVars, blockVars, resumeVars, startVars, histVars>>
nonMgrLockVars == <<apprVars, runVars, callVars, ctxVars, clsVars, selVars,
                    ccVars, truncVars, refVars, blockVars, resumeVars, startVars, histVars>>
nonRefVars == <<apprVars, runVars, mcpVars, callVars, ctxVars, clsVars, selVars, ccVars, truncVars, lockVars, blockVars, resumeVars, startVars, histVars>>
nonBlockVars == <<apprVars, runVars, mcpVars, callVars, ctxVars, clsVars, selVars, ccVars, truncVars, lockVars, refVars, resumeVars, startVars, histVars>>

\* ================================================= tool types and policy

\* McpServerType (two of the seven types: one without and one with a
\* namespace prefix).
ServerTypes == {"gmail", "telegram"}

\* TOOL_PREFIX_MAP: "" for gmail, "tg_" for telegram.
TOOL_PREFIX_MAP(stype) == IF stype = "telegram" THEN <<"tg_">> ELSE << >>

\* MCP_TYPE_META: for gmail the "prefixes" are whole tool names, for telegram
\* they are true prefixes ("get_", "send_") of the server's native names.
MCP_TYPE_META(stype) ==
    IF stype = "gmail"
    THEN [category |-> "gmail",
          tool_prefixes_read |-> {<<"search_emails">>},
          tool_prefixes_write |-> {<<"send_email">>},
          approval_tools |-> {<<"send_email">>}]
    ELSE [category |-> "telegram",
          tool_prefixes_read |-> {<<"get_">>},
          tool_prefixes_write |-> {<<"send_">>},
          approval_tools |-> {<<"send_", "message">>}]

\* The native tool names a server of the type declares in list_tools.
NativeTools(stype) ==
    IF stype = "gmail"
    THEN {<<"search_emails">>, <<"send_email">>}
    ELSE {<<"get_", "chats">>, <<"send_", "message">>}

\* register_instance: prefixed_name = prefix + orig_name.
RegisteredTools(types) ==
    UNION {{TOOL_PREFIX_MAP(t) \o n : n \in NativeTools(t)} : t \in types}

Phases == {"read_only", "drafts", "controlled"}
Wildcard == <<"*">>

\* default_tool_policy(enabled_types): the three ToolPolicyPhase records.
default_tool_policy(types) ==
    LET pre(t, ps) == {TOOL_PREFIX_MAP(t) \o p : p \in ps}
        reads == UNION {pre(t, MCP_TYPE_META(t).tool_prefixes_read) : t \in types}
        writes == UNION {pre(t, MCP_TYPE_META(t).tool_prefixes_write) : t \in types}
        danger == UNION {pre(t, MCP_TYPE_META(t).approval_tools) : t \in types}
    IN [read_only |-> [allowed_prefixes |-> reads, requires_approval |-> {}],
        drafts |-> [allowed_prefixes |-> reads \cup writes,
                    requires_approval |-> writes],
        controlled |-> [allowed_prefixes |-> {Wildcard},
                        requires_approval |-> danger]]

\* ProjectConfig.get_active_policy
get_active_policy(proj) == default_tool_policy(proj.types)[proj.phase]

\* ToolRegistry.filter_tools_for_instances: '*' allows everything, otherwise
\* any(name.startswith(p) for p in allowed_prefixes).
filter_tools_for_instances(types, allowed_prefixes) ==
    IF Wildcard \in allowed_prefixes
    THEN RegisteredTools(types)
    ELSE {n \in RegisteredTools(types) :
             \E p \in allowed_prefixes : IsPrefix(p, n)}

\* MCPManager.get_project_tools
get_project_tools(proj) ==
    filter_tools_for_instances(proj.types, get_active_policy(proj).allowed_prefixes)

\* MCPManager.get_tools_requiring_approval
get_tools_requiring_approval(proj) == get_active_policy(proj).requires_approval

\* AgentCore._get_available_categories
get_available_categories(proj) == {MCP_TYPE_META(t).category : t \in proj.types}

\* classifier._build_tool_prefixes: read + write prefixes of each category,
\* with the namespace prefix.
build_tool_prefixes(categories) ==
    UNION {{TOOL_PREFIX_MAP(t) \o p :
               p \in MCP_TYPE_META(t).tool_prefixes_read
                     \cup MCP_TYPE_META(t).tool_prefixes_write} :
           t \in {u \in ServerTypes : MCP_TYPE_META(u).category \in categories}}

\* The narrowed list used even when it is empty.
SelectToolsNoFallback(proj, cls) ==
    IF ~cls.needs_tools THEN {}
    ELSE LET all == get_project_tools(proj)
         IN IF cls.categories # {}
            THEN {n \in all : \E p \in build_tool_prefixes(cls.categories) :
                                  IsPrefix(p, n)}
            ELSE all

\* run, step 3: the tools offered to the provider.
SelectTools(proj, cls) ==
    IF ~cls.needs_tools THEN {}
    ELSE LET all == get_project_tools(proj)
             narrowed == {n \in all :
                            \E p \in build_tool_prefixes(cls.categories) :
                                IsPrefix(p, n)}
         IN IF cls.categories # {} /\ narrowed # {} THEN narrowed ELSE all

\* ------------------------------------------------------- context window
MAX_TOOL_ITERATIONS == 15
MAX_TOKENS_BUDGET == 50000
TRIM_MAX_TOKENS == 150000
MESSAGE_OVERHEAD == 10

RECURSIVE estimate_messages_tokens(_)
\* context._estimate_messages_tokens: content estimate + 10 per message.
estimate_messages_tokens(msgs) ==
    IF msgs = << >> THEN 0
    ELSE Head(msgs).tokens + MESSAGE_OVERHEAD + estimate_messages_tokens(Tail(msgs))

RECURSIVE TrimLoop(_, _)
\* while len(trimmed) > 2 and estimate > max_tokens: trimmed.pop(0)
TrimLoop(trimmed, max_tokens) ==
    IF Len(trimmed) > 2 /\ estimate_messages_tokens(trimmed) > max_tokens
    THEN TrimLoop(Tail(trimmed), max_tokens)
    ELSE trimmed

\* A trim that drops the oldest message whatever the estimate.
trim_messages_always_drops(msgs, max_tokens) ==
    IF msgs = << >> THEN msgs ELSE TrimLoop(Tail(msgs), max_tokens)

\* context.trim_messages
trim_messages(msgs, max_tokens) ==
    IF msgs = << >> THEN msgs
    ELSE IF estimate_messages_tokens(msgs) <= max_tokens THEN msgs
    ELSE TrimLoop(msgs, max_tokens)

\* --------------------------------------------------------- run: inputs
\* provider usage per call (input tokens small or large; output tokens fixed)
SmallUsage == 1000
LargeUsage == 24500
OutUsage == 500
\* estimated tokens of the user message: short, or longer than the window
ShortMessage == 5
LongMessage == 200000
\* estimated tokens of the tool_result blocks of one round (each result is
\* truncated to 2000 characters before insertion)
ResultTokens == 600
\* tool_use blocks in one provider response
MaxBlocks == 2

NoPending == [tool_name |-> << >>, tool_use_id |-> <<0, 0>>,
              messages_snapshot |-> << >>]
NoClassification == [needs_tools |-> FALSE, is_simple |-> FALSE, categories |-> {}]
\* no classifier call made
NoReply == [kind |-> "none", needs_tools |-> "absent", is_simple |-> "absent",
            has_categories |-> FALSE, categories |-> {}]

\* The conversation history the run loads: one earlier exchange.
History == << Turn("user", "text", 0, ShortMessage),
              Turn("assistant", "text", 0, ShortMessage) >>

\* No run in flight.
RunIdle ==
    /\ project = [types |-> {"gmail"}, phase |-> "read_only"]
    /\ user_tokens = ShortMessage
    /\ rpc = "idle"
    /\ classification = NoClassification
    /\ iteration = 0
    /\ total_input = 0
    /\ total_output = 0
    /\ messages = << >>
    /\ anthropic_tools = {}
    /\ approval_list = {}
    /\ stop_reason = "none"
    /\ tool_blocks = << >>
    /\ tool_results = << >>
    /\ pending_approval = NoPending
    /\ calls = [loop |-> 0, final |-> 0, simple |-> 0]
    /\ over_at = 0
    /\ db_log = << >>
    /\ result_blocks = << >>
    /\ last_user_turn = << >>

\* No context function being called.
ContextIdle ==
    /\ fpc = "idle"
    /\ arg_messages = << >>
    /\ arg_max_tokens = 0
    /\ returned = << >>
    /\ summarizer_calls = 0
    /\ summaries = 0

\* one call of classifier.classify_request: not being exercised.
ClassifierIdle ==
    /\ reply = NoReply
    /\ available_categories = {}
    /\ classified = NoClassification

\* run, step 3: the tools offered after a classification: not being exercised.
SelectIdle ==
    /\ sel_project = [types |-> {}, phase |-> "read_only"]
    /\ selected = FALSE
    /\ offered = {}

\* one call of AgentCore._call_claude: not being exercised.
CallClaudeIdle ==
    /\ cc_pc = "idle"
    /\ attempt = 0
    /\ has_refresher = FALSE
    /\ creates = 0
    /\ caught = << >>
    /\ sleeps = << >>
    /\ refreshes = 0
    /\ rebuilds = 0
    /\ retries = 0
    /\ surfaced = "none"

\* one tool_result content built from a tool result text: not being exercised.
TruncateIdle ==
    /\ tr_pc = "idle"
    /\ result_text = << >>
    /\ max_chars = 0
    /\ site = "none"
    /\ tool_result_content = << >>

\* no start_project, call_tool or stop_all is suspended at an await
NoStartProject == [pc |-> "idle", pid |-> "none", cur |-> "none", todo |-> << >>]
NoCallTool == [pc |-> "idle", client |-> "none"]
NoStopAll == [pc |-> "idle", seen |-> {}, size |-> 0]
\* nothing has changed the manager's tables yet
NoMutation == [op |-> "none", locked |-> TRUE, during |-> {}]

\* the tasks that run MCPManager operations, and its lock: not being exercised.
LockIdle ==
    /\ lock = "free"
    /\ sp = NoStartProject
    /\ ct = NoCallTool
    /\ sa = NoStopAll
    /\ last_mutation = NoMutation
    /\ ops = 0

\* tasks that are inside _call_claude at the same time (queries of several
\* chats, scheduler jobs)
Callers == {"a", "b", "c"}

\* concurrent _call_claude calls sharing one OAuthRefresher: not being exercised.
RefresherIdle ==
    /\ rf_pc = [t \in Callers |-> "idle"]
    /\ sent_with = [t \in Callers |-> 0]
    /\ rf_lock = "free"
    /\ auth_token = 0
    /\ refresh_token = FALSE
    /\ posts = 0

NoBlock == [project_id |-> "none", phase |-> "none", tool_name |-> << >>,
            allowed |-> {}, gated |-> FALSE]

\* one tool_use block of AgentCore.run: not being exercised.
BlockIdle ==
    /\ tool_block = NoBlock

NoResume == [tool_name |-> << >>, tool_use_id |-> "none"]

\* a run paused at the approval gate and its resumption: not being exercised.
ResumeIdle ==
    /\ rs_pc = "idle"
    /\ rs_messages = << >>
    /\ rs_pending = NoResume
    /\ rs_context = << >>
    /\ rs_sent = << >>

NoStart == [op |-> "none", project_id |-> "none", attempted |-> << >>,
            failed |-> {}, retried |-> {}, raised |-> FALSE]

\* the start operations of MCPManager and their failures: not being exercised.
StartIdle ==
    /\ st_log = NoStart
    /\ ever_failed = {}

\* the conversations table and the runs that read and extend it: not being exercised.
HistoryIdle ==
    /\ rows = << >>
    /\ h_pc = "idle"
    /\ h_messages = << >>
    /\ h_user = 0
    /\ h_sent = << >>
    /\ h_pending = "none"
    /\ h_runs = 0
    /\ h_rounds = 0

\* ------------------------------------------------- supervisor: inputs
\* tool-server processes spawned in one execution; a connect beyond it fails
MaxSpawns == 2

\* project ids that may exist in settings.projects, in dict order
ProjectOrder == <<"p1", "p2">>
Projects == {ProjectOrder[k] : k \in 1..Len(ProjectOrder)}
\* the keys of global_config.mcp_instances
InstanceIds == {"i1", "i2"}
\* ProjectConfig.mcp_services values a project is created with
ServiceLists == {<<"i1">>, <<"i2">>, <<"i1", "i2">>, <<"i2", "i1">>}

\* every name an instance can be registered under
AllToolNames == RegisteredTools(ServerTypes)
\* the keys _tool_to_client can hold: exposed names, and the servers' own
\* names (register_client enters a client's tools without a prefix)
RoutedNames == AllToolNames \cup UNION {NativeTools(t) : t \in ServerTypes}

\* An entry of mcp_instances. An instance id names its type (pid_gmail,
\* pid_telegram), so the type stays with the id while the entry is absent
\* (configured = FALSE).
McpInstanceConfig(stype, configured) == [type |-> stype, configured |-> configured]

\* no call_tool made yet
NoCall == [tool_name |-> << >>, project_id |-> "none", client |-> "none",
           original_name |-> << >>, reconnects |-> 0, dispatched |-> FALSE,
           result |-> "none"]

NoProcess == [inst |-> "none", n |-> 0]
Process(iid, n) == [inst |-> iid, n |-> n]
\* absent from MCPManager.instances
NoClient == [present |-> FALSE, session |-> FALSE, exit_stack |-> NoProcess,
             tools |-> {}]
\* absent from ToolRegistry._instances
NotRegistered == [registered |-> FALSE, original_names |-> {}]

\* The supervisor as constructed, with no project configured.
McpIdle ==
    /\ projects = {}
    /\ mcp_services = [p \in Projects |-> << >>]
    /\ mcp_instances = [i \in InstanceIds |-> McpInstanceConfig("gmail", FALSE)]
    /\ instances = [i \in InstanceIds |-> NoClient]
    /\ refcount = [i \in InstanceIds |-> {}]
    /\ orphaned_stacks = {}
    /\ reg_instances = [i \in InstanceIds |-> NotRegistered]
    /\ tool_to_client = [n \in RoutedNames |-> "none"]
    /\ all_tools = {}
    /\ live = {}
    /\ spawned = 0
    /\ start_tasks = {}
    /\ lifecycle = "boot"
    /\ last_call = NoCall

\* ========================================================== approval gate

\* The UPDATE ... WHERE id = ? (no status guard): what resolve_approval would
\* be without its conditional update.
resolve_approval_unguarded(st, id, new) ==
    [status |-> [st EXCEPT ![id] = IF st[id] = "none" THEN "none" ELSE new],
     ok |-> st[id] # "none"]

\* UPDATE approval_requests SET status = ? WHERE id = ? AND status = 'pending';
\* returns cursor.rowcount > 0.
resolve_approval(st, id, new) ==
    [status |-> [st EXCEPT ![id] = IF st[id] = "pending" THEN new ELSE st[id]],
     ok |-> st[id] = "pending"]

\* SELECT * ... WHERE id = ? AND status = 'pending': the row or None.
get_pending_approval(st, id) == st[id] = "pending"

\* The snapshot run() hands to handle_query: it ends with the assistant turn
\* that requested the gated tool.
SampleSnapshot ==
    << Turn("user", "text", 0, 10), Turn("assistant", "tool_use", 1, 10) >>

IdleCb ==
    [pc |-> "idle", kind |-> "none", id |-> 0, ret |-> "None",
     tool_ok |-> FALSE, stop |-> "none", messages |-> << >>]

\* An empty approval_requests table and no callback in flight.
ApprovalIdle ==
    /\ status = [i \in ApprovalIds |-> "none"]
    /\ context = [i \in ApprovalIds |-> << >>]
    /\ cb = [t \in Callbacks |-> IdleCb]
    /\ toolExec = [i \in ApprovalIds |-> 0]
    /\ claudeCalls = [i \in ApprovalIds |-> 0]

InitApproval == ApprovalIdle /\ HistoryIdle /\ StartIdle /\ ResumeIdle /\ BlockIdle /\ RefresherIdle /\ LockIdle /\ TruncateIdle /\ CallClaudeIdle /\ SelectIdle /\ ClassifierIdle /\ RunIdle /\ McpIdle /\ ContextIdle

\* handle_query: the run returned pending_approval; INSERT a pending row.
create_approval(id) ==
    /\ status[id] = "none"
    /\ status' = [status EXCEPT ![id] = "pending"]
    /\ context' = [context EXCEPT ![id] = SampleSnapshot]
    /\ UNCHANGED <<cb, toolExec, claudeCalls>>
    /\ UNCHANGED nonApprVars

\* on_approve up to its first await: get_pending_approval; no row -> alert, return.
OnApproveFetch(t, id) ==
    /\ cb[t].pc = "idle"
    /\ status[id] # "none"
    /\ cb' = [cb EXCEPT ![t] =
                [@ EXCEPT !.kind = "approve", !.id = id,
                          !.pc = IF get_pending_approval(status, id)
                                 THEN "answer" ELSE "done",
                          !.messages = IF get_pending_approval(status, id)
                                       THEN context[id] ELSE << >>]]
    /\ UNCHANGED <<status, context, toolExec, claudeCalls>>
    /\ UNCHANGED nonApprVars

\* await callback.answer("...")
OnApproveAnswer(t) ==
    /\ cb[t].pc = "answer"
    /\ cb' = [cb EXCEPT ![t].pc = "resolve"]
    /\ UNCHANGED <<status, context, toolExec, claudeCalls>>
    /\ UNCHANGED nonApprVars

\* await resolve_approval(db, approval_id, "approved"); the result is dropped.
OnApproveResolve(t) ==
    /\ cb[t].pc = "resolve"
    /\ LET r == resolve_approval(status, cb[t].id, "approved") IN
         /\ status' = r.status
         /\ cb' = [cb EXCEPT ![t].pc = "call_tool",
                             ![t].ret = IF r.ok THEN "True" ELSE "False"]
    /\ UNCHANGED <<context, toolExec, claudeCalls>>
    /\ UNCHANGED nonApprVars

\* execute_approved_tool, phase 1: mcp.call_tool (ok or raising), then the
\* tool_result turn is appended to the restored snapshot.
ExecApprovedCallTool(t) ==
    /\ cb[t].pc = "call_tool"
    /\ \E ok \in BOOLEAN :
         cb' = [cb EXCEPT ![t].pc = "call_claude",
                          ![t].tool_ok = ok,
                          ![t].messages =
                              Append(@, Turn("user", "tool_result",
                                             Len(@), 10))]
    /\ toolExec' = [toolExec EXCEPT ![cb[t].id] = @ + 1]
    /\ UNCHANGED <<status, context, claudeCalls>>
    /\ UNCHANGED nonApprVars

\* execute_approved_tool, phase 2: one provider call with the project's tools;
\* the text of the response is returned whatever its stop_reason.  A provider
\* error is swallowed when the tool had run, re-raised otherwise (on_approve
\* then reports the error).
ExecApprovedCallClaude(t) ==
    /\ cb[t].pc = "call_claude"
    /\ \E stop \in {"end_turn", "tool_use", "max_tokens", "error"} :
         cb' = [cb EXCEPT ![t].pc = "done", ![t].stop = stop]
    /\ claudeCalls' = [claudeCalls EXCEPT ![cb[t].id] = @ + 1]
    /\ UNCHANGED <<status, context, toolExec>>
    /\ UNCHANGED nonApprVars

\* on_reject up to its first await.
OnRejectFetch(t, id) ==
    /\ cb[t].pc = "idle"
    /\ status[id] # "none"
    /\ cb' = [cb EXCEPT ![t] =
                [@ EXCEPT !.kind = "reject", !.id = id,
                          !.pc = IF get_pending_approval(status, id)
                                 THEN "rj_resolve" ELSE "done"]]
    /\ UNCHANGED <<status, context, toolExec, claudeCalls>>
    /\ UNCHANGED nonApprVars

\* await resolve_approval(db, approval_id, "rejected"), then answer/edit_text.
OnRejectResolve(t) ==
    /\ cb[t].pc = "rj_resolve"
    /\ LET r == resolve_approval(status, cb[t].id, "rejected") IN
         /\ status' = r.status
         /\ cb' = [cb EXCEPT ![t].pc = "done",
                             ![t].ret = IF r.ok THEN "True" ELSE "False"]
    /\ UNCHANGED <<context, toolExec, claudeCalls>>
    /\ UNCHANGED nonApprVars

NextApproval ==
    \/ \E id \in ApprovalIds : create_approval(id)
    \/ \E t \in Callbacks, id \in ApprovalIds : OnApproveFetch(t, id)
    \/ \E t \in Callbacks : OnApproveAnswer(t)
    \/ \E t \in Callbacks : OnApproveResolve(t)
    \/ \E t \in Callbacks : ExecApprovedCallTool(t)
    \/ \E t \in Callbacks : ExecApprovedCallClaude(t)
    \/ \E t \in Callbacks, id \in ApprovalIds : OnRejectFetch(t, id)
    \/ \E t \in Callbacks : OnRejectResolve(t)

SpecApproval == InitApproval /\ [][NextApproval]_vars

\* ========================================================= AgentCore.run

InitRun ==
    /\ ApprovalIdle
    /\ HistoryIdle
    /\ StartIdle
    /\ ResumeIdle
    /\ BlockIdle
    /\ RefresherIdle
    /\ LockIdle
    /\ TruncateIdle
    /\ CallClaudeIdle
    /\ SelectIdle
    /\ ClassifierIdle
    /\ McpIdle
    /\ ContextIdle
    /\ project \in [types : SUBSET ServerTypes \ {{}}, phase : Phases]
    /\ user_tokens \in {ShortMessage, LongMessage}
    /\ rpc = "classify"
    /\ classification = NoClassification
    /\ iteration = 0
    /\ total_input = 0
    /\ total_output = 0
    /\ messages = << >>
    /\ anthropic_tools = {}
    /\ approval_list = {}
    /\ stop_reason = "none"
    /\ tool_blocks = << >>
    /\ tool_results = << >>
    /\ pending_approval = NoPending
    /\ calls = [loop |-> 0, final |-> 0, simple |-> 0]
    /\ over_at = 0
    /\ db_log = << >>
    /\ result_blocks = << >>
    /\ last_user_turn = << >>

\* What classify_request can return: categories are filtered to the available
\* ones; on failure needs_tools = True, all categories, is_simple = False.
ClassifierOutputs(proj) ==
    [needs_tools : BOOLEAN, is_simple : BOOLEAN,
     categories : SUBSET get_available_categories(proj)]

\* `if total_input + total_output > MAX_TOKENS_BUDGET` ignored: the loop never
\* stops for the budget.
BudgetNeverExceeded(ti, to) == FALSE

\* core.py:188
BudgetExceeded(ti, to) == ti + to > MAX_TOKENS_BUDGET

\* The gate skipped when the phase allows every tool.
RequiresApprovalUnlessWildcard(name, proj) ==
    /\ name \in get_tools_requiring_approval(proj)
    /\ Wildcard \notin get_active_policy(proj).allowed_prefixes

\* core.py:229: `tool_name in approval_list`, the list being
\* get_tools_requiring_approval(project_id) (core.py:159).
RequiresApproval(name, proj) == name \in get_tools_requiring_approval(proj)

\* step 5: save_message(user), save_message(assistant), track_cost
Persisted(log) == log \o <<"user", "assistant", "cost">>

\* the usage of one response added to the run's totals
Accrue(u) ==
    /\ total_input' = total_input + u
    /\ total_output' = total_output + OutUsage

\* The fast path for every simple request, tools needed or not.
takes_fast_path_if_simple(cls) == cls.is_simple

\* core.py:121: `if classification.is_simple and not classification.needs_tools`
takes_fast_path(cls) == cls.is_simple /\ ~cls.needs_tools

\* run, steps 1-3: classification, then either the fast path or the message
\* window (history + the user turn, trimmed), the offered tools and the
\* approval list.
Classify ==
    /\ rpc = "classify"
    /\ \E cls \in ClassifierOutputs(project) :
         /\ classification' = cls
         /\ IF takes_fast_path(cls)
            THEN /\ rpc' = "simple"
                 /\ UNCHANGED <<messages, anthropic_tools, approval_list>>
            ELSE /\ rpc' = "iter"
                 /\ messages' = trim_messages(
                        Append(History, Turn("user", "text", 0, user_tokens)),
                        TRIM_MAX_TOKENS)
                 /\ anthropic_tools' = SelectTools(project, cls)
                 /\ approval_list' = get_tools_requiring_approval(project)
    /\ UNCHANGED <<project, user_tokens, iteration, total_input, total_output,
                   stop_reason, tool_blocks, tool_results, pending_approval,
                   calls, over_at, db_log>>
    /\ UNCHANGED toolVars
    /\ UNCHANGED nonRunVars
    /\ UNCHANGED <<status, context>>

\* _simple_response: one provider call without tools, then persistence.
SimpleResponse ==
    /\ rpc = "simple"
    /\ calls' = [calls EXCEPT !.simple = @ + 1]
    /\ \/ /\ rpc' = "done"
          /\ db_log' = Persisted(db_log)
       \/ /\ rpc' = "raised"
          /\ UNCHANGED db_log
    /\ UNCHANGED <<project, user_tokens, classification, iteration, total_input,
                   total_output, messages, anthropic_tools, approval_list,
                   stop_reason, tool_blocks, tool_results, pending_approval,
                   over_at>>
    /\ UNCHANGED toolVars
    /\ UNCHANGED nonRunVars
    /\ UNCHANGED <<status, context>>

\* core.py:188-199: over budget at the top of an iteration: one call with
\* tools=None, then break and persist.
BudgetFinalCall ==
    /\ rpc = "iter"
    /\ BudgetExceeded(total_input, total_output)
    /\ calls' = [calls EXCEPT !.final = @ + 1]
    /\ \/ /\ \E u \in {SmallUsage, LargeUsage} : Accrue(u)
          /\ rpc' = "done"
          /\ db_log' = Persisted(db_log)
       \/ /\ rpc' = "raised"
          /\ UNCHANGED <<total_input, total_output, db_log>>
    /\ UNCHANGED <<project, user_tokens, classification, iteration, messages,
                   anthropic_tools, approval_list, stop_reason, tool_blocks,
                   tool_results, pending_approval, over_at>>
    /\ UNCHANGED toolVars
    /\ UNCHANGED nonRunVars
    /\ UNCHANGED <<status, context>>

\* the bookkeeping of one call of the loop (core.py:201-213)
LoopCall(u) ==
    /\ rpc = "iter"
    /\ ~BudgetExceeded(total_input, total_output)
    /\ calls' = [calls EXCEPT !.loop = @ + 1]
    /\ Accrue(u)
    /\ over_at' = IF over_at = 0
                     /\ total_input + u + total_output + OutUsage > MAX_TOKENS_BUDGET
                  THEN calls.loop + 1 ELSE over_at

\* stop_reason == "end_turn", or any stop reason other than tool_use
\* (core.py:215-217, 280-281): extract the text, break, persist.
ClaudeCompletes ==
    /\ \E u \in {SmallUsage, LargeUsage} : LoopCall(u)
    /\ \E stop \in {"end_turn", "max_tokens"} : stop_reason' = stop
    /\ rpc' = "done"
    /\ db_log' = Persisted(db_log)
    /\ UNCHANGED <<project, user_tokens, classification, iteration, messages,
                   anthropic_tools, approval_list, tool_blocks, tool_results,
                   pending_approval>>
    /\ UNCHANGED toolVars
    /\ UNCHANGED nonRunVars
    /\ UNCHANGED <<status, context>>

\* stop_reason == "tool_use" (core.py:219-223): the assistant turn is appended
\* and the blocks are processed in order.  The provider requests only tools it
\* was offered.
ClaudeRequestsTools ==
    /\ anthropic_tools # {}
    /\ \E u \in {SmallUsage, LargeUsage} : LoopCall(u)
    /\ stop_reason' = "tool_use"
    /\ \E n \in 1..MaxBlocks : \E blocks \in [1..n -> anthropic_tools] :
         tool_blocks' = blocks
    /\ tool_results' = << >>
    /\ result_blocks' = << >>
    /\ messages' = Append(messages, Turn("assistant", "tool_use", iteration + 1, 0))
    /\ rpc' = "blocks"
    /\ last_user_turn' = << >>
    /\ UNCHANGED <<project, user_tokens, classification, iteration,
                   anthropic_tools, approval_list, pending_approval, db_log>>
    /\ UNCHANGED nonRunVars
    /\ UNCHANGED <<status, context>>

\* _call_claude raises out of the loop: the run is aborted.
ClaudeRaises ==
    /\ rpc = "iter"
    /\ ~BudgetExceeded(total_input, total_output)
    /\ calls' = [calls EXCEPT !.loop = @ + 1]
    /\ rpc' = "raised"
    /\ UNCHANGED <<project, user_tokens, classification, iteration, total_input,
                   total_output, messages, anthropic_tools, approval_list,
                   stop_reason, tool_blocks, tool_results, pending_approval,
                   over_at, db_log>>
    /\ UNCHANGED toolVars
    /\ UNCHANGED nonRunVars
    /\ UNCHANGED <<status, context>>

\* The gate records the pending approval but the loop goes on to the next block.
GateToolContinues ==
    /\ rpc = "blocks"
    /\ tool_blocks # << >>
    /\ RequiresApproval(Head(tool_blocks), project)
    /\ pending_approval' =
           [tool_name |-> Head(tool_blocks),
            tool_use_id |-> <<iteration + 1, Len(tool_results) + 1>>,
            messages_snapshot |-> messages]
    /\ db_log' = db_log \o <<"user", "cost">>
    /\ tool_blocks' = Tail(tool_blocks)
    /\ UNCHANGED <<project, user_tokens, rpc, classification, iteration,
                   total_input, total_output, messages, anthropic_tools,
                   approval_list, stop_reason, tool_results, calls, over_at>>
    /\ UNCHANGED toolVars
    /\ UNCHANGED nonRunVars
    /\ UNCHANGED <<status, context>>

\* core.py:229-246: the next block's tool requires approval: persist the user
\* turn and the cost, return with pending_approval (snapshot = messages).
GateTool ==
    /\ rpc = "blocks"
    /\ tool_blocks # << >>
    /\ RequiresApproval(Head(tool_blocks), project)
    /\ pending_approval' =
           [tool_name |-> Head(tool_blocks),
            tool_use_id |-> <<iteration + 1, Len(tool_results) + 1>>,
            messages_snapshot |-> messages]
    /\ db_log' = db_log \o <<"user", "cost">>
    /\ rpc' = "done"
    /\ UNCHANGED <<project, user_tokens, classification, iteration, total_input,
                   total_output, messages, anthropic_tools, approval_list,
                   stop_reason, tool_blocks, tool_results, calls, over_at>>
    /\ UNCHANGED toolVars
    /\ UNCHANGED nonRunVars
    /\ UNCHANGED <<status, context>>

\* What MCPManager.call_tool does for the run: a result text, or one of its
\* exceptions (unknown tool, failed reconnect, timeout, server error).
CallResults == {"ok", "not_found", "reconnect_failed", "timeout", "error"}

\* A tool exception that escapes the loop body.
ToolErrorEscapes(result) == FALSE

\* core.py:257: `except Exception as e` around call_tool: every exception of
\* call_tool is caught and turned into the text "Ошибка: ...".
ToolErrorCaught(result) == TRUE

\* The new block put in front of the list.
CollectResultFirst(results, block) == <<block>> \o results

\* core.py:268: tool_results.append({type, tool_use_id, content})
CollectResult(results, block) == Append(results, block)

\* core.py:248-272: the next block's tool is dispatched to mcp.call_tool and
\* awaited; its result or its error text becomes a tool_result block.
ExecTool ==
    /\ rpc = "blocks"
    /\ tool_blocks # << >>
    /\ ~RequiresApproval(Head(tool_blocks), project)
    /\ tool_results' = Append(tool_results, Head(tool_blocks))
    /\ tool_blocks' = Tail(tool_blocks)
    /\ \E result \in CallResults :
         IF result = "ok" \/ ToolErrorCaught(result)
         THEN /\ result_blocks' =
                    CollectResult(result_blocks,
                        [tool_use_id |-> <<iteration + 1, Len(tool_results) + 1>>,
                         is_error |-> result # "ok"])
              /\ rpc' = "blocks"
         ELSE /\ rpc' = "raised"
              /\ UNCHANGED result_blocks
    /\ UNCHANGED <<project, user_tokens, classification, iteration,
                   total_input, total_output, messages, anthropic_tools,
                   approval_list, stop_reason, pending_approval, calls, over_at,
                   db_log, last_user_turn>>
    /\ UNCHANGED nonRunVars
    /\ UNCHANGED <<status, context>>

\* A for loop that never runs out of iterations.
LoopNeverExhausted(i) == FALSE

\* core.py:182, 282: range(MAX_TOOL_ITERATIONS) is exhausted after iteration i.
LoopExhausted(i) == i >= MAX_TOOL_ITERATIONS

\* core.py:274-278: the results become one user turn, the window is trimmed
\* and the loop continues; after the last iteration the for-else follows.
FinishRound ==
    /\ rpc = "blocks"
    /\ tool_blocks = << >>
    /\ messages' = trim_messages(
           Append(messages, Turn("user", "tool_result", iteration + 1, ResultTokens)),
           TRIM_MAX_TOKENS)
    /\ iteration' = iteration + 1
    /\ rpc' = IF LoopExhausted(iteration + 1) THEN "max_iter" ELSE "iter"
    /\ tool_results' = << >>
    /\ last_user_turn' = [i \in 1..Len(result_blocks) |->
                             result_blocks[i].tool_use_id]
    /\ result_blocks' = << >>
    /\ UNCHANGED <<project, user_tokens, classification, total_input,
                   total_output, anthropic_tools, approval_list, stop_reason,
                   tool_blocks, pending_approval, calls, over_at, db_log>>
    /\ UNCHANGED nonRunVars
    /\ UNCHANGED <<status, context>>

\* core.py:282-291: the iteration limit: one call with tools=None, persist.
MaxIterFinalCall ==
    /\ rpc = "max_iter"
    /\ calls' = [calls EXCEPT !.final = @ + 1]
    /\ \/ /\ \E u \in {SmallUsage, LargeUsage} : Accrue(u)
          /\ rpc' = "done"
          /\ db_log' = Persisted(db_log)
       \/ /\ rpc' = "raised"
          /\ UNCHANGED <<total_input, total_output, db_log>>
    /\ UNCHANGED <<project, user_tokens, classification, iteration, messages,
                   anthropic_tools, approval_list, stop_reason, tool_blocks,
                   tool_results, pending_approval, over_at>>
    /\ UNCHANGED toolVars
    /\ UNCHANGED nonRunVars
    /\ UNCHANGED <<status, context>>

\* handle_query (queries.py:108-120): the run returned pending_approval; the
\* snapshot is stored as the row's conversation_context.
HandleQueryCreateApproval ==
    /\ rpc = "done"
    /\ pending_approval # NoPending
    /\ \E id \in ApprovalIds :
         /\ status[id] = "none"
         /\ \A j \in ApprovalIds : j < id => status[j] # "none"
         /\ status' = [status EXCEPT ![id] = "pending"]
         /\ context' = [context EXCEPT ![id] = pending_approval.messages_snapshot]
    /\ rpc' = "awaiting_approval"
    /\ UNCHANGED <<project, user_tokens, classification, iteration, total_input,
                   total_output, messages, anthropic_tools, approval_list,
                   stop_reason, tool_blocks, tool_results, pending_approval,
                   calls, over_at, db_log>>
    /\ UNCHANGED toolVars
    /\ UNCHANGED nonRunVars

NextRun ==
    \/ Classify
    \/ SimpleResponse
    \/ BudgetFinalCall
    \/ ClaudeCompletes
    \/ ClaudeRequestsTools
    \/ ClaudeRaises
    \/ GateTool
    \/ ExecTool
    \/ FinishRound
    \/ MaxIterFinalCall
    \/ HandleQueryCreateApproval

\* The run is one task of the event loop: every await (provider call, tool
\* call with its timeout, database call) completes or raises.
SpecRun == InitRun /\ [][NextRun]_vars /\ WF_vars(NextRun)

\* ============================================= MCPManager and ToolRegistry

Range(s) == {s[k] : k \in 1..Len(s)}

\* The manager's and the registry's fields, and the processes, as one value
\* that the methods below transform.
Mgr ==
    [instances |-> instances, refcount |-> refcount,
     orphaned_stacks |-> orphaned_stacks, reg_instances |-> reg_instances,
     tool_to_client |-> tool_to_client, all_tools |-> all_tools,
     live |-> live, spawned |-> spawned]

SetMgr(m) ==
    /\ instances' = m.instances
    /\ refcount' = m.refcount
    /\ orphaned_stacks' = m.orphaned_stacks
    /\ reg_instances' = m.reg_instances
    /\ tool_to_client' = m.tool_to_client
    /\ all_tools' = m.all_tools
    /\ live' = m.live
    /\ spawned' = m.spawned

\* ToolRegistry.register_instance: every tool of the client is entered under
\* prefix + name, overwriting an entry of the same name.
register_instance(m, instance_id, client_tools, prefix) ==
    LET names == {prefix \o n : n \in client_tools}
    IN [m EXCEPT
          !.tool_to_client = [n \in RoutedNames |->
                                IF n \in names THEN instance_id ELSE @[n]],
          !.all_tools = @ \cup names,
          !.reg_instances[instance_id] =
              [registered |-> TRUE, original_names |-> client_tools]]

\* ToolRegistry.register_client: every tool of the client is entered under
\* its own name; _instances gets no entry.
register_client(m, instance_id, client_tools) ==
    [m EXCEPT
       !.tool_to_client = [n \in RoutedNames |->
                             IF n \in client_tools THEN instance_id ELSE @[n]],
       !.all_tools = @ \cup client_tools]

\* ToolRegistry.unregister_instance: the names of the entry are popped from
\* the routing table and the tool list, whoever they route to.
unregister_instance(m, instance_id) ==
    LET entry == m.reg_instances[instance_id]
        prefix == TOOL_PREFIX_MAP(mcp_instances[instance_id].type)
        names == {prefix \o n : n \in entry.original_names}
    IN IF ~entry.registered THEN m
       ELSE [m EXCEPT
               !.reg_instances[instance_id] = NotRegistered,
               !.tool_to_client = [n \in RoutedNames |->
                                     IF n \in names THEN "none" ELSE @[n]],
               !.all_tools = @ \ names]

\* MCPManager._start_instance. ok: MCPClient.connect succeeds; when it raises,
\* connect has closed what it opened and the exception is swallowed.
start_instance(m, instance_id, ok) ==
    IF ~ok \/ m.spawned >= MaxSpawns THEN m
    ELSE LET proc == Process(instance_id, m.spawned + 1)
             stype == mcp_instances[instance_id].type
             client == [present |-> TRUE, session |-> TRUE,
                        exit_stack |-> proc, tools |-> NativeTools(stype)]
             m1 == [m EXCEPT !.live = @ \cup {proc},
                             !.spawned = @ + 1]
             m2 == register_instance(m1, instance_id, client.tools,
                                     TOOL_PREFIX_MAP(stype))
         IN [m2 EXCEPT !.instances[instance_id] = client]

\* The connect outcomes of one call, per instance.
Outcomes == [InstanceIds -> BOOLEAN]

\* MCPManager.start_project, the body under the lock.
RECURSIVE start_project(_, _, _, _)
start_project(m, project_id, ids, ok) ==
    IF ids = << >> THEN m
    ELSE LET instance_id == Head(ids)
             m1 == [m EXCEPT !.refcount[instance_id] = @ \cup {project_id}]
             m2 == IF ~mcp_instances[instance_id].configured THEN m
                   ELSE IF ~m1.instances[instance_id].present
                   THEN start_instance(m1, instance_id, ok[instance_id])
                   ELSE m1
         IN start_project(m2, project_id, Tail(ids), ok)

\* MCPManager.stop_project, the body under the lock. ids is the project's
\* mcp_services as settings holds it at the call.
RECURSIVE stop_project(_, _, _)
stop_project(m, project_id, ids) ==
    IF ids = << >> THEN m
    ELSE LET instance_id == Head(ids)
             refs == m.refcount[instance_id] \ {project_id}
             client == m.instances[instance_id]
             popped == [m EXCEPT !.refcount[instance_id] = {},
                                 !.instances[instance_id] = NoClient]
             dropped ==
                 IF ~client.present THEN popped
                 ELSE LET u == unregister_instance(popped, instance_id)
                      IN IF client.exit_stack # NoProcess
                         THEN [u EXCEPT !.orphaned_stacks =
                                           @ \cup {client.exit_stack}]
                         ELSE u
             m1 == IF m.refcount[instance_id] = {} THEN m
                   ELSE IF refs = {} THEN dropped
                   ELSE [m EXCEPT !.refcount[instance_id] = refs]
         IN stop_project(m1, project_id, Tail(ids))

\* The instance ids of all projects in dict order, each once (the keys of
\* `needed` in start_all).
RECURSIVE AllServices(_)
AllServices(k) ==
    IF k > Len(ProjectOrder) THEN << >>
    ELSE (IF ProjectOrder[k] \in projects
          THEN mcp_services[ProjectOrder[k]] ELSE << >>)
         \o AllServices(k + 1)

RECURSIVE Dedupe(_, _)
Dedupe(s, seen) ==
    IF s = << >> THEN << >>
    ELSE IF Head(s) \in seen THEN Dedupe(Tail(s), seen)
    ELSE <<Head(s)>> \o Dedupe(Tail(s), seen \cup {Head(s)})

RECURSIVE StartEach(_, _, _)
StartEach(m, ids, ok) ==
    IF ids = << >> THEN m
    ELSE StartEach(start_instance(m, Head(ids), ok[Head(ids)]), Tail(ids), ok)

Remove(s, x) == SelectSeq(s, LAMBDA y : y # x)

\* A ProjectConfig object lives while the settings or a pending start task
\* refer to it; the list of an object nothing refers to is dropped.
Collect(services, in_settings, in_tasks) ==
    [p \in Projects |->
        IF p \in in_settings \cup in_tasks THEN services[p] ELSE << >>]

\* The bot at boot: the projects of the settings file, nothing started.
InitMcp ==
    /\ ApprovalIdle
    /\ HistoryIdle
    /\ StartIdle
    /\ ResumeIdle
    /\ BlockIdle
    /\ RefresherIdle
    /\ LockIdle
    /\ TruncateIdle
    /\ CallClaudeIdle
    /\ SelectIdle
    /\ ClassifierIdle
    /\ RunIdle
    /\ ContextIdle
    /\ projects \in SUBSET Projects
    /\ mcp_services \in [Projects -> ServiceLists \cup {<< >>}]
    /\ \A p \in Projects : (mcp_services[p] = << >>) <=> (p \notin projects)
    /\ mcp_instances \in [InstanceIds ->
                             {McpInstanceConfig(t, TRUE) : t \in ServerTypes}]
    /\ instances = [i \in InstanceIds |-> NoClient]
    /\ refcount = [i \in InstanceIds |-> {}]
    /\ orphaned_stacks = {}
    /\ reg_instances = [i \in InstanceIds |-> NotRegistered]
    /\ tool_to_client = [n \in RoutedNames |-> "none"]
    /\ all_tools = {}
    /\ live = {}
    /\ spawned = 0
    /\ start_tasks = {}
    /\ lifecycle = "boot"
    /\ last_call = NoCall

\* MCPManager.start_all (main.py, at boot): the reference sets of every
\* project, then one start per needed instance.
do_start_all ==
    /\ lifecycle = "boot"
    /\ \E ok \in Outcomes :
         LET needed == SelectSeq(Dedupe(AllServices(1), {}),
                                 LAMBDA i : mcp_instances[i].configured)
             m1 == [Mgr EXCEPT !.refcount =
                       [i \in InstanceIds |->
                          IF mcp_instances[i].configured
                          THEN {p \in projects : i \in Range(mcp_services[p])}
                          ELSE {}]]
         IN SetMgr(StartEach(m1, needed, ok))
    /\ lifecycle' = "up"
    /\ UNCHANGED <<projects, mcp_services, mcp_instances, start_tasks>>

start_all == do_start_all /\ UNCHANGED nonMcpVars

\* on_create_confirm (project_management.py): the project's own instances
\* (gmail, calendar) are configured, the project enters the settings and a
\* background task is created to start its servers.
on_create_confirm(pid, services) ==
    /\ lifecycle = "up"
    /\ pid \notin projects
    /\ pid \notin start_tasks
    /\ \A i \in Range(services) : mcp_instances[i].type = "gmail"
    /\ mcp_instances' = [i \in InstanceIds |->
                            IF i \in Range(services)
                            THEN McpInstanceConfig(mcp_instances[i].type, TRUE)
                            ELSE mcp_instances[i]]
    /\ projects' = projects \cup {pid}
    /\ mcp_services' = [mcp_services EXCEPT ![pid] = services]
    /\ start_tasks' = start_tasks \cup {pid}
    /\ UNCHANGED <<instances, refcount, orphaned_stacks, reg_instances,
                   tool_to_client, all_tools, live, spawned, lifecycle>>
    /\ UNCHANGED nonMcpVars

\* The background task: start_project(pid, project) under the lock.
StartProjectTask(pid) ==
    /\ lifecycle = "up"
    /\ pid \in start_tasks
    /\ \E ok \in Outcomes :
         SetMgr(start_project(Mgr, pid, mcp_services[pid], ok))
    /\ start_tasks' = start_tasks \ {pid}
    /\ mcp_services' = Collect(mcp_services, projects, start_tasks')
    /\ UNCHANGED <<projects, mcp_instances, lifecycle>>
    /\ UNCHANGED nonMcpVars

\* The instances of `ids` that no project other than pid lists lose their
\* entry in mcp_instances (on_delete_confirm, on_removemcp_confirm).
PopUnused(pid, ids) ==
    [i \in InstanceIds |->
        IF /\ i \in ids
           /\ ~ \E p \in projects \ {pid} : i \in Range(mcp_services[p])
        THEN McpInstanceConfig(mcp_instances[i].type, FALSE)
        ELSE mcp_instances[i]]

\* on_addmcp_reuse_existing (mcp_management.py): an instance that exists and
\* is not yet listed is attached to the project; a task starts the project.
on_addmcp_reuse_existing(pid, iid) ==
    /\ lifecycle = "up"
    /\ pid \in projects
    /\ mcp_instances[iid].configured
    /\ iid \notin Range(mcp_services[pid])
    /\ mcp_services' = [mcp_services EXCEPT ![pid] = Append(@, iid)]
    /\ start_tasks' = start_tasks \cup {pid}
    /\ UNCHANGED <<projects, mcp_instances, instances, refcount,
                   orphaned_stacks, reg_instances, tool_to_client, all_tools,
                   live, spawned, lifecycle>>
    /\ UNCHANGED nonMcpVars

\* on_session_string (auth_telegram.py): the project's telegram instance is
\* (re)configured, attached if not yet listed, and a task starts the project.
on_session_string(pid, iid) ==
    /\ lifecycle = "up"
    /\ pid \in projects
    /\ mcp_instances[iid].type = "telegram"
    /\ mcp_instances' = [mcp_instances EXCEPT
                            ![iid] = McpInstanceConfig("telegram", TRUE)]
    /\ mcp_services' =
          [mcp_services EXCEPT ![pid] =
              IF iid \in Range(@) THEN @ ELSE Append(@, iid)]
    /\ start_tasks' = start_tasks \cup {pid}
    /\ UNCHANGED <<projects, instances, refcount, orphaned_stacks,
                   reg_instances, tool_to_client, all_tools, live, spawned,
                   lifecycle>>
    /\ UNCHANGED nonMcpVars

\* on_delete_confirm (project_management.py): stop_project, the instances
\* only this project listed are dropped from mcp_instances, then the project
\* leaves the settings.
do_delete_confirm(pid) ==
    /\ lifecycle = "up"
    /\ pid \in projects
    /\ SetMgr(stop_project(Mgr, pid, mcp_services[pid]))
    /\ mcp_instances' = PopUnused(pid, Range(mcp_services[pid]))
    /\ projects' = projects \ {pid}
    /\ mcp_services' = Collect(mcp_services, projects', start_tasks)
    /\ UNCHANGED <<start_tasks, lifecycle>>

on_delete_confirm(pid) == do_delete_confirm(pid) /\ UNCHANGED nonMcpVars

\* on_removemcp_confirm (mcp_management.py): the instance leaves the
\* project's mcp_services (and mcp_instances if no other project lists it),
\* then stop_project, then a task restarts what is left.
do_removemcp_confirm(pid, iid) ==
    /\ lifecycle = "up"
    /\ pid \in projects
    /\ iid \in Range(mcp_services[pid])
    /\ LET rest == Remove(mcp_services[pid], iid)
       IN /\ mcp_services' = [mcp_services EXCEPT ![pid] = rest]
          /\ mcp_instances' = PopUnused(pid, {iid})
          /\ SetMgr(stop_project(Mgr, pid, rest))
          /\ start_tasks' = IF rest # << >> THEN start_tasks \cup {pid}
                            ELSE start_tasks
    /\ UNCHANGED <<projects, lifecycle>>

on_removemcp_confirm(pid, iid) ==
    do_removemcp_confirm(pid, iid) /\ UNCHANGED nonMcpVars

\* MCPManager.stop_all (main.py, at shutdown): every client is disconnected,
\* every orphaned exit stack is closed, all tables are cleared.
stop_all ==
    /\ lifecycle = "up"
    /\ live' = live \ ({instances[i].exit_stack : i \in InstanceIds}
                        \cup orphaned_stacks)
    /\ instances' = [i \in InstanceIds |-> NoClient]
    /\ refcount' = [i \in InstanceIds |-> {}]
    /\ orphaned_stacks' = {}
    /\ reg_instances' = [i \in InstanceIds |-> NotRegistered]
    /\ tool_to_client' = [n \in RoutedNames |-> "none"]
    /\ all_tools' = {}
    /\ lifecycle' = "down"
    /\ UNCHANGED <<projects, mcp_services, mcp_instances, spawned, start_tasks>>
    /\ UNCHANGED nonMcpVars

NextMcp ==
    \/ start_all
    \/ \E pid \in Projects, services \in ServiceLists :
         on_create_confirm(pid, services)
    \/ \E pid \in Projects : StartProjectTask(pid)
    \/ \E pid \in Projects, iid \in InstanceIds :
         on_addmcp_reuse_existing(pid, iid)
    \/ \E pid \in Projects, iid \in InstanceIds : on_session_string(pid, iid)
    \/ \E pid \in Projects : on_delete_confirm(pid)
    \/ \E pid \in Projects, iid \in InstanceIds :
         on_removemcp_confirm(pid, iid)
    \/ stop_all

SpecMcp == InitMcp /\ [][NextMcp]_vars

\* ===================================================== MCPManager.call_tool

\* ToolRegistry.get_original_tool_name: the name without the prefix of a
\* registered instance that declares the rest of it; otherwise the name as
\* given. (All instances with a non-empty prefix that match give the same
\* answer, so the dict order of _instances does not show.)
get_original_tool_name(m, prefixed_name) ==
    LET hits == {SubSeq(prefixed_name,
                        Len(TOOL_PREFIX_MAP(mcp_instances[iid].type)) + 1,
                        Len(prefixed_name)) :
                   iid \in {i \in InstanceIds :
                      LET prefix == TOOL_PREFIX_MAP(mcp_instances[i].type)
                      IN /\ m.reg_instances[i].registered
                         /\ prefix # << >>
                         /\ IsPrefix(prefix, prefixed_name)
                         /\ SubSeq(prefixed_name, Len(prefix) + 1,
                                   Len(prefixed_name))
                               \in m.reg_instances[i].original_names}}
    IN IF hits # {} THEN CHOOSE o \in hits : TRUE ELSE prefixed_name

\* ToolRegistry.get_client_for_tool
get_client_for_tool(m, tool_name) ==
    IF tool_name \in RoutedNames THEN m.tool_to_client[tool_name] ELSE "none"

\* MCPClient.disconnect: the client's state is cleared and its exit stack
\* closed.
disconnect(m, iid) ==
    [m EXCEPT !.live = @ \ {m.instances[iid].exit_stack},
              !.instances[iid] = [present |-> @.present, session |-> FALSE,
                                  exit_stack |-> NoProcess, tools |-> {}]]

\* MCPClient.reconnect, then the re-registration of call_tool: disconnect and
\* connect; a connect that raises leaves the client disconnected.
reconnect(m, iid, ok) ==
    LET d == disconnect(m, iid)
        stype == mcp_instances[iid].type
        proc == Process(iid, d.spawned + 1)
        c == [d EXCEPT !.live = @ \cup {proc},
                       !.spawned = @ + 1,
                       !.instances[iid] =
                           [present |-> @.present, session |-> TRUE,
                            exit_stack |-> proc, tools |-> NativeTools(stype)]]
    IN IF ok /\ d.spawned < MaxSpawns
       THEN IF mcp_instances[iid].configured
            THEN register_instance(c, iid, NativeTools(stype),
                                   TOOL_PREFIX_MAP(stype))
            ELSE register_client(c, iid, NativeTools(stype))
       ELSE d

\* a name no server declares
UnknownTool == <<"no_such_tool">>
\* what the session's call_tool does: a result, a timeout, a server error
SessionOutcomes == {"ok", "timeout", "error"}

\* A timeout that leaves the session in place.
timeout_keeps_session(m, iid) == m

\* MCPClient.call_tool, `except asyncio.TimeoutError`: self._session = None
\* (the exit stack and the cached tools stay), then RuntimeError.
timeout_disconnects(m, iid) == [m EXCEPT !.instances[iid].session = FALSE]

\* MCPManager.call_tool(tool_name, arguments, project_id), as one step.
\* ok: the connect of a reconnect succeeds; outcome: what the session does.
do_call_tool(tool_name, project_id, ok, outcome) ==
    /\ lifecycle = "up"
    /\ LET client == get_client_for_tool(Mgr, tool_name)
           base == [NoCall EXCEPT !.tool_name = tool_name,
                                  !.project_id = project_id]
       IN IF project_id \in projects
          \* registry.get_client_for_tool_in_instances is not defined
          THEN /\ last_call' = [base EXCEPT !.result = "attribute_error"]
               /\ SetMgr(Mgr)
          ELSE IF client = "none"
          THEN /\ last_call' = [base EXCEPT !.result = "not_found"]
               /\ SetMgr(Mgr)
          ELSE LET was_connected == instances[client].session
                   m1 == IF was_connected THEN Mgr ELSE reconnect(Mgr, client, ok)
                   n == IF was_connected THEN 0 ELSE 1
                   called == [base EXCEPT !.client = client, !.reconnects = n]
               IN IF ~m1.instances[client].session
                  THEN /\ last_call' = [called EXCEPT
                                          !.result = "reconnect_failed"]
                       /\ SetMgr(m1)
                  ELSE /\ last_call' =
                            [called EXCEPT
                               !.original_name =
                                   get_original_tool_name(m1, tool_name),
                               !.dispatched = TRUE,
                               !.result = outcome]
                       /\ SetMgr(IF outcome = "timeout"
                                 THEN timeout_disconnects(m1, client)
                                 ELSE m1)
    /\ UNCHANGED <<projects, mcp_services, mcp_instances, start_tasks,
                   lifecycle>>

call_tool(tool_name, project_id, ok, outcome) ==
    /\ do_call_tool(tool_name, project_id, ok, outcome)
    /\ UNCHANGED nonMcpCallVars

\* The manager after boot, serving tool calls until shutdown.
NextDispatch ==
    \/ start_all
    \/ \E tool_name \in AllToolNames \cup {UnknownTool},
          project_id \in Projects \cup {"none"},
          ok \in BOOLEAN, outcome \in SessionOutcomes :
         call_tool(tool_name, project_id, ok, outcome)
    \/ stop_all

SpecDispatch == InitMcp /\ [][NextDispatch]_vars

\* ================================== AgentCore.run: executing a tool block

nonMcpCallBlockVars == <<apprVars, runVars, ctxVars, clsVars, selVars, ccVars,
                         truncVars, lockVars, refVars, resumeVars, startVars, histVars>>
nonResumeVars == <<apprVars, runVars, mcpVars, callVars, ctxVars, clsVars, selVars, ccVars, truncVars, lockVars, refVars, blockVars, startVars, histVars>>
nonStartVars == <<apprVars, runVars, mcpVars, callVars, ctxVars, clsVars, selVars, ccVars, truncVars, lockVars, refVars, blockVars, resumeVars, histVars>>

\* ToolRegistry.filter_tools_for_instances on the registry's state: the
\* exposed names of the registered instances among instance_ids that are in
\* _all_tools, narrowed by the policy's prefixes unless '*' is among them.
filter_registered_tools_for_instances(m, instance_ids, allowed_prefixes) ==
    LET instance_tool_names ==
            UNION {{TOOL_PREFIX_MAP(mcp_instances[i].type) \o n :
                       n \in m.reg_instances[i].original_names} :
                   i \in {j \in instance_ids : m.reg_instances[j].registered}}
        instance_tools == m.all_tools \cap instance_tool_names
    IN IF Wildcard \in allowed_prefixes
       THEN instance_tools
       ELSE {n \in instance_tools : \E p \in allowed_prefixes : IsPrefix(p, n)}

\* The project's policy record: the default policy of the types of its
\* services, in the given phase.
ProjectPolicy(project_id, phase) ==
    get_active_policy([types |-> {mcp_instances[i].type :
                                     i \in Range(mcp_services[project_id])},
                       phase |-> phase])

\* MCPManager.get_project_tools(project_id) for a project in settings.
get_registered_project_tools(m, project_id, phase) ==
    filter_registered_tools_for_instances(
        m, Range(mcp_services[project_id]),
        ProjectPolicy(project_id, phase).allowed_prefixes)

\* core.py:224-251, one tool_use block of the provider's response in a run
\* for project_id: a name in approval_list ends the run with a pending
\* approval; any other name is passed to mcp.call_tool(tool_name, tool_input),
\* without a project_id. The name is what the provider's response holds.
RunToolBlock(project_id, phase, tool_name, ok, outcome) ==
    /\ lifecycle = "up"
    /\ project_id \in projects
    /\ LET gated == tool_name \in ProjectPolicy(project_id, phase).requires_approval
       IN /\ tool_block' =
                [project_id |-> project_id, phase |-> phase,
                 tool_name |-> tool_name,
                 allowed |-> get_registered_project_tools(Mgr, project_id, phase),
                 gated |-> gated]
          /\ IF gated
             THEN UNCHANGED <<mcpVars, callVars>>
             ELSE do_call_tool(tool_name, "none", ok, outcome)
    /\ UNCHANGED nonMcpCallBlockVars

\* Two projects with one service each, of either type; the manager not yet
\* started.
InitRunTools ==
    /\ InitMcp
    /\ projects = {"p1", "p2"}
    /\ mcp_services = [p1 |-> <<"i1">>, p2 |-> <<"i2">>]

NextRunTools ==
    \/ start_all
    \/ \E project_id \in Projects, phase \in Phases,
          tool_name \in AllToolNames \cup {UnknownTool},
          ok \in BOOLEAN, outcome \in {"ok", "timeout"} :
         RunToolBlock(project_id, phase, tool_name, ok, outcome)
    \/ stop_all

SpecRunTools == InitRunTools /\ [][NextRunTools]_vars

\* ======================== MCPManager: a start that fails (_start_instance)

nonMcpStartVars == <<apprVars, runVars, callVars, ctxVars, clsVars, selVars,
                     ccVars, truncVars, lockVars, refVars, blockVars,
                     resumeVars, histVars>>
nonHistVars == <<apprVars, runVars, mcpVars, callVars, ctxVars, clsVars, selVars, ccVars, truncVars, lockVars, refVars, blockVars, resumeVars, startVars>>

\* The exception of a failed start leaves _start_instance.
start_failure_reraised(started) == ~started

\* manager.py:151-155: `except Exception` logs the failure and returns.
start_failure_escapes(started) == FALSE

\* One _start_instance call inside a start loop, with the loop's record: the
\* manager, the ids attempted so far, those that failed, and whether an
\* exception has left the loop (which ends it).
AttemptStart(r, instance_id, ok) ==
    LET started == ok /\ r.m.spawned < MaxSpawns
    IN [m |-> start_instance(r.m, instance_id, ok),
        attempted |-> Append(r.attempted, instance_id),
        failed |-> IF started THEN r.failed ELSE r.failed \cup {instance_id},
        raised |-> start_failure_escapes(started)]

\* manager.py:55-56: start_all's loop over `needed`.
RECURSIVE start_all_loop(_, _, _)
start_all_loop(r, ids, ok) ==
    IF ids = << >> \/ r.raised THEN r
    ELSE start_all_loop(AttemptStart(r, Head(ids), ok[Head(ids)]), Tail(ids), ok)

\* manager.py:64-81: start_project's loop over project.mcp_services.
RECURSIVE start_project_loop(_, _, _, _)
start_project_loop(r, project_id, ids, ok) ==
    IF ids = << >> \/ r.raised THEN r
    ELSE LET instance_id == Head(ids)
             r1 == [r EXCEPT !.m.refcount[instance_id] = @ \cup {project_id}]
             r2 == IF ~mcp_instances[instance_id].configured THEN r
                   ELSE IF ~r1.m.instances[instance_id].present
                   THEN AttemptStart(r1, instance_id, ok[instance_id])
                   ELSE r1
         IN start_project_loop(r2, project_id, Tail(ids), ok)

LoopStart(m) == [m |-> m, attempted |-> << >>, failed |-> {}, raised |-> FALSE]

LogOf(op, project_id, r) ==
    [op |-> op, project_id |-> project_id, attempted |-> r.attempted,
     failed |-> r.failed, retried |-> Range(r.attempted) \cap ever_failed,
     raised |-> r.raised]

\* MCPManager.start_all at boot, the connect of each instance succeeding or
\* raising as ok says.
StartAllAttempt(ok) ==
    /\ lifecycle = "boot"
    /\ LET needed == SelectSeq(Dedupe(AllServices(1), {}),
                               LAMBDA i : mcp_instances[i].configured)
           m1 == [Mgr EXCEPT !.refcount =
                     [i \in InstanceIds |->
                        IF mcp_instances[i].configured
                        THEN {p \in projects : i \in Range(mcp_services[p])}
                        ELSE {}]]
           r == start_all_loop(LoopStart(m1), needed, ok)
       IN /\ SetMgr(r.m)
          /\ st_log' = LogOf("start_all", "none", r)
          /\ ever_failed' = ever_failed \cup r.failed
    /\ lifecycle' = "up"
    /\ UNCHANGED <<projects, mcp_services, mcp_instances, start_tasks>>
    /\ UNCHANGED nonMcpStartVars

\* The background task of a created or changed project:
\* start_project(pid, project) under the lock.
StartProjectAttempt(pid, ok) ==
    /\ lifecycle = "up"
    /\ pid \in start_tasks
    /\ LET r == start_project_loop(LoopStart(Mgr), pid, mcp_services[pid], ok)
       IN /\ SetMgr(r.m)
          /\ st_log' = LogOf("start_project", pid, r)
          /\ ever_failed' = ever_failed \cup r.failed
    /\ start_tasks' = start_tasks \ {pid}
    /\ mcp_services' = Collect(mcp_services, projects, start_tasks')
    /\ UNCHANGED <<projects, mcp_instances, lifecycle>>
    /\ UNCHANGED nonMcpStartVars

NextStart ==
    \/ \E ok \in Outcomes : StartAllAttempt(ok)
    \/ \E pid \in Projects, services \in ServiceLists :
         on_create_confirm(pid, services)
    \/ \E pid \in Projects, iid \in InstanceIds :
         on_removemcp_confirm(pid, iid)
    \/ \E pid \in Projects, ok \in Outcomes : StartProjectAttempt(pid, ok)

SpecStart == InitMcp /\ [][NextStart]_vars

\* ======================= the persisted history and the lists run sends

\* core.py:128 and core.py:327: the limit of get_conversation_history
HISTORY_LIMIT == 20
SIMPLE_HISTORY_LIMIT == 6

\* runs in one execution, and tool rounds in one run
MaxRuns == 3
MaxRounds == 1

\* db/queries.py:26-41: the newest `limit` rows, oldest first.
get_conversation_history(table, limit) ==
    IF Len(table) <= limit THEN table
    ELSE SubSeq(table, Len(table) - limit + 1, Len(table))

\* context.py:12-22: one message per row, with the row's role.
build_messages_from_history(history) ==
    [i \in 1..Len(history) |->
        Turn(history[i].role, history[i].kind, 0, history[i].tokens)]

\* db/queries.py save_message: one more row.
save_message(table, role, tokens) == Append(table, Turn(role, "text", 0, tokens))

InitHistory ==
    /\ ApprovalIdle
    /\ HistoryIdle
    /\ StartIdle
    /\ ResumeIdle
    /\ BlockIdle
    /\ RefresherIdle
    /\ LockIdle
    /\ TruncateIdle
    /\ CallClaudeIdle
    /\ SelectIdle
    /\ ClassifierIdle
    /\ RunIdle
    /\ McpIdle
    /\ ContextIdle

\* core.py:121-122, 315-353: the fast path; the list is the newest six rows
\* and the user message; both turns are saved after the provider answered.
SimpleResponseRun(text_tokens, ok) ==
    /\ h_pc = "idle"
    /\ h_runs < MaxRuns
    /\ h_runs' = h_runs + 1
    /\ h_sent' = Append(build_messages_from_history(
                            get_conversation_history(rows, SIMPLE_HISTORY_LIMIT)),
                        Turn("user", "text", 0, text_tokens))
    /\ rows' = IF ok
               THEN save_message(save_message(rows, "user", text_tokens),
                                 "assistant", ShortMessage)
               ELSE rows
    /\ UNCHANGED <<h_pc, h_messages, h_user, h_pending, h_rounds>>
    /\ UNCHANGED nonHistVars

\* core.py:128-137: the history, the user message, trim_messages.
\* (maybe_summarize returns a list of fewer than SUMMARIZE_THRESHOLD messages
\* unchanged; the histories of MaxRuns runs are shorter.)
RunBuildsMessages(text_tokens) ==
    /\ h_pc = "idle"
    /\ h_runs < MaxRuns
    /\ h_runs' = h_runs + 1
    /\ h_messages' =
           trim_messages(
               Append(build_messages_from_history(
                          get_conversation_history(rows, HISTORY_LIMIT)),
                      Turn("user", "text", 0, text_tokens)),
               TRIM_MAX_TOKENS)
    /\ h_user' = text_tokens
    /\ h_rounds' = 0
    /\ h_pc' = "loop"
    /\ UNCHANGED <<rows, h_sent, h_pending>>
    /\ UNCHANGED nonHistVars

\* core.py:201-217, 289-296: the provider call of the loop (or the final call
\* without tools) ends the turn; the user and the assistant turn are saved.
LoopCallEndsTurn ==
    /\ h_pc = "loop"
    /\ h_sent' = h_messages
    /\ rows' = save_message(save_message(rows, "user", h_user),
                            "assistant", ShortMessage)
    /\ h_pc' = "idle"
    /\ UNCHANGED <<h_messages, h_user, h_pending, h_runs, h_rounds>>
    /\ UNCHANGED nonHistVars

\* core.py:219-278: the response requests tools that need no approval: the
\* assistant turn and the tool_result turn are appended, then trim_messages.
LoopCallRunsTools ==
    /\ h_pc = "loop"
    /\ h_rounds < MaxRounds
    /\ h_rounds' = h_rounds + 1
    /\ h_sent' = h_messages
    /\ h_messages' =
           trim_messages(
               h_messages \o <<Turn("assistant", "tool_use", h_rounds + 1, 0),
                               Turn("user", "tool_result", h_rounds + 1,
                                    ResultTokens)>>,
               TRIM_MAX_TOKENS)
    /\ UNCHANGED <<rows, h_pc, h_user, h_pending, h_runs>>
    /\ UNCHANGED nonHistVars

\* core.py:229-246 and handle_query: the response requests a gated tool: only
\* the user turn is saved, the run returns and the approval row is created.
LoopCallPausesAtGate ==
    /\ h_pc = "loop"
    /\ h_pending # "pending"
    /\ h_sent' = h_messages
    /\ rows' = save_message(rows, "user", h_user)
    /\ h_pending' = "pending"
    /\ h_pc' = "idle"
    /\ UNCHANGED <<h_messages, h_user, h_runs, h_rounds>>
    /\ UNCHANGED nonHistVars

\* core.py:201 with _call_claude raising: the run is aborted, nothing saved.
LoopCallRaises ==
    /\ h_pc = "loop"
    /\ h_sent' = h_messages
    /\ h_pc' = "idle"
    /\ UNCHANGED <<rows, h_messages, h_user, h_pending, h_runs, h_rounds>>
    /\ UNCHANGED nonHistVars

\* on_approve and execute_approved_tool (core.py:400-433): the assistant turn
\* is saved when the provider call of phase 2 succeeds, nothing otherwise.
ApprovalApproved(ok) ==
    /\ h_pending = "pending"
    /\ h_pending' = "approved"
    /\ rows' = IF ok THEN save_message(rows, "assistant", ShortMessage) ELSE rows
    /\ UNCHANGED <<h_pc, h_messages, h_user, h_sent, h_runs, h_rounds>>
    /\ UNCHANGED nonHistVars

\* on_reject (approvals.py:84-99): the row is resolved, nothing is saved.
ApprovalRejected ==
    /\ h_pending = "pending"
    /\ h_pending' = "rejected"
    /\ UNCHANGED <<rows, h_pc, h_messages, h_user, h_sent, h_runs, h_rounds>>
    /\ UNCHANGED nonHistVars

NextHistory ==
    \/ \E text_tokens \in {ShortMessage, LongMessage}, ok \in BOOLEAN :
         SimpleResponseRun(text_tokens, ok)
    \/ \E text_tokens \in {ShortMessage, LongMessage} :
         RunBuildsMessages(text_tokens)
    \/ LoopCallEndsTurn
    \/ LoopCallRunsTools
    \/ LoopCallPausesAtGate
    \/ LoopCallRaises
    \/ \E ok \in BOOLEAN : ApprovalApproved(ok)
    \/ ApprovalRejected

SpecHistory == InitHistory /\ [][NextHistory]_vars

\* ============================ the approval gate and execute_approved_tool

\* A message of the provider format: its role, the tool_use blocks (id, name)
\* of an assistant turn, the tool_use_ids of a user turn's tool_result blocks.
Message(role, tool_use, tool_result) ==
    [role |-> role, tool_use |-> tool_use, tool_result |-> tool_result]
TextMessage(role) == Message(role, << >>, << >>)

\* the project of the paused run: both types, phase controlled
ResumeProject == [types |-> ServerTypes, phase |-> "controlled"]

\* the message lists run has before the provider answers with tool_use: the
\* new user message, alone or after an earlier exchange
ResumeHistories ==
    {<<TextMessage("user")>>,
     <<TextMessage("user"), TextMessage("assistant"), TextMessage("user")>>}

\* the id the provider gives the k-th tool_use block of the response
BlockId(k) == <<"toolu", k>>
\* on_approve's fallback: f"toolu_{uuid.uuid4().hex[:24]}"
GeneratedId == <<"toolu", "uuid4">>

\* core.py:221-222: the assistant turn with the serialized blocks.
serialize_content(names) ==
    Message("assistant",
            [k \in 1..Len(names) |-> [id |-> BlockId(k), name |-> names[k]]],
            << >>)

\* the index of the first block whose name is in approval_list, 0 if none
RECURSIVE first_gated(_, _, _)
first_gated(names, approval_names, k) ==
    IF k > Len(names) THEN 0
    ELSE IF names[k] \in approval_names THEN k
    ELSE first_gated(names, approval_names, k + 1)

\* approvals.py:40-49: the id of the first tool_use block named tool_name in
\* the latest assistant message that has one; "" if there is none.
RECURSIVE find_tool_use_id(_, _, _)
find_tool_use_id(snapshot, tool_name, i) ==
    IF i = 0 THEN "none"
    ELSE LET msg == snapshot[i]
             hits == {k \in 1..Len(msg.tool_use) :
                         msg.tool_use[k].name = tool_name}
         IN IF msg.role = "assistant" /\ hits # {}
            THEN msg.tool_use[CHOOSE k \in hits : \A j \in hits : k <= j].id
            ELSE find_tool_use_id(snapshot, tool_name, i - 1)

\* approvals.py:39-53
restore_tool_use_id(snapshot, tool_name) ==
    LET found == find_tool_use_id(snapshot, tool_name, Len(snapshot))
    IN IF found = "none" THEN GeneratedId ELSE found

\* core.py:383-390: one user turn with one tool_result block.
tool_result_turn(snapshot, tool_use_id) ==
    Message("user", << >>, <<tool_use_id>>)

InitResume ==
    /\ ApprovalIdle
    /\ HistoryIdle
    /\ StartIdle
    /\ ResumeIdle
    /\ BlockIdle
    /\ RefresherIdle
    /\ LockIdle
    /\ TruncateIdle
    /\ CallClaudeIdle
    /\ SelectIdle
    /\ ClassifierIdle
    /\ RunIdle
    /\ McpIdle
    /\ ContextIdle

\* core.py:219-246: the provider's response holds the blocks `names`; the
\* assistant turn is appended, the blocks before the first gated one are
\* executed (their results stay in the local tool_results), and at the gated
\* block run returns the pending approval with messages as the snapshot.
RunPausesAtGate(history, names) ==
    /\ rs_pc = "idle"
    /\ LET approval_names == get_tools_requiring_approval(ResumeProject)
           k == first_gated(names, approval_names, 1)
       IN /\ k > 0
          /\ rs_messages' = Append(history, serialize_content(names))
          /\ rs_pending' = [tool_name |-> names[k], tool_use_id |-> BlockId(k)]
    /\ rs_pc' = "paused"
    /\ UNCHANGED <<rs_context, rs_sent>>
    /\ UNCHANGED nonResumeVars

\* queries.py:108-120: the snapshot is stored as JSON in the approval row
\* (lists, dicts and strings: the text read back gives the same structure).
HandleQueryStoresSnapshot ==
    /\ rs_pc = "paused"
    /\ rs_context' = rs_messages
    /\ rs_pc' = "stored"
    /\ rs_messages' = << >>
    /\ rs_pending' = NoResume
    /\ UNCHANGED rs_sent
    /\ UNCHANGED nonResumeVars

\* approvals.py:36-60: on_approve rebuilds the PendingApproval from the row;
\* tool_name is the row's column.
OnApproveRestores(tool_name) ==
    /\ rs_pc = "stored"
    /\ tool_name = LET msg == rs_context[Len(rs_context)]
                   IN msg.tool_use[first_gated(
                          [k \in 1..Len(msg.tool_use) |-> msg.tool_use[k].name],
                          get_tools_requiring_approval(ResumeProject), 1)].name
    /\ rs_messages' = rs_context
    /\ rs_pending' = [tool_name |-> tool_name,
                      tool_use_id |-> restore_tool_use_id(rs_context, tool_name)]
    /\ rs_pc' = "restored"
    /\ UNCHANGED <<rs_context, rs_sent>>
    /\ UNCHANGED nonResumeVars

\* core.py:364-390: phase 1; the tool's result or its error text becomes the
\* tool_result of a new user turn.
ExecuteApprovedCallTool(tool_ok) ==
    /\ rs_pc = "restored"
    /\ rs_messages' = Append(rs_messages,
                             tool_result_turn(rs_messages, rs_pending.tool_use_id))
    /\ rs_pc' = "tool_done"
    /\ UNCHANGED <<rs_pending, rs_context, rs_sent>>
    /\ UNCHANGED nonResumeVars

\* core.py:400-405: phase 2; _call_claude(messages=messages).
ExecuteApprovedCallClaude ==
    /\ rs_pc = "tool_done"
    /\ rs_sent' = rs_messages
    /\ rs_pc' = "sent"
    /\ UNCHANGED <<rs_messages, rs_pending, rs_context>>
    /\ UNCHANGED nonResumeVars

NextResume ==
    \/ \E history \in ResumeHistories, n \in 1..MaxBlocks :
         \E names \in [1..n -> RegisteredTools(ServerTypes)] :
            RunPausesAtGate(history, names)
    \/ HandleQueryStoresSnapshot
    \/ \E tool_name \in RegisteredTools(ServerTypes) : OnApproveRestores(tool_name)
    \/ \E tool_ok \in BOOLEAN : ExecuteApprovedCallTool(tool_ok)
    \/ ExecuteApprovedCallClaude

SpecResume == InitResume /\ [][NextResume]_vars

\* ================================================= context.trim_messages

\* longest message list given to trim_messages
MaxTrimLen == 4
\* estimated tokens of a longer message
MidMessage == 60

\* Message lists of up to MaxTrimLen turns, short or longer, numbered from the
\* oldest; roles alternate (trim_messages does not read them).
TrimInputs ==
    UNION { { [i \in 1..n |-> Turn(IF i % 2 = 1 THEN "user" ELSE "assistant",
                                    "text", i, size[i])] :
                size \in [1..n -> {ShortMessage, MidMessage}] } :
            n \in 0..MaxTrimLen }

\* max_tokens: room for one short message, for two and for three longer ones
TrimBudgets == { ShortMessage + MESSAGE_OVERHEAD,
                 2 * (MidMessage + MESSAGE_OVERHEAD),
                 3 * (MidMessage + MESSAGE_OVERHEAD) }

InitTrim ==
    /\ ApprovalIdle
    /\ HistoryIdle
    /\ StartIdle
    /\ ResumeIdle
    /\ BlockIdle
    /\ RefresherIdle
    /\ LockIdle
    /\ TruncateIdle
    /\ CallClaudeIdle
    /\ SelectIdle
    /\ ClassifierIdle
    /\ RunIdle
    /\ McpIdle
    /\ fpc = "called"
    /\ arg_messages \in TrimInputs
    /\ arg_max_tokens \in TrimBudgets
    /\ returned = << >>
    /\ summarizer_calls = 0
    /\ summaries = 0

\* trim_messages(messages, max_tokens) is called and returns.
CallTrimMessages ==
    /\ fpc = "called"
    /\ returned' = trim_messages(arg_messages, arg_max_tokens)
    /\ fpc' = "returned"
    /\ UNCHANGED <<arg_messages, arg_max_tokens, summarizer_calls, summaries>>
    /\ UNCHANGED nonCtxVars

NextTrim == CallTrimMessages

SpecTrim == InitTrim /\ [][NextTrim]_vars

\* ============================================ summarizer.maybe_summarize

SUMMARIZE_THRESHOLD == 20
KEEP_RECENT == 10

\* the summary turn (summarizer.py:82-85) and the filler turns inserted by
\* maybe_summarize (summarizer.py:93) and _fix_role_alternation
\* (summarizer.py:149-151, 156)
SummaryMessage == Turn("user", "summary", 0, ShortMessage)
Filler(role) == Turn(role, "filler", 0, ShortMessage)
OtherRole(role) == IF role = "user" THEN "assistant" ELSE "user"

\* The first KEEP_RECENT messages taken for the newest ones.
recent_messages_from_start(msgs) == SubSeq(msgs, 1, KEEP_RECENT)

\* summarizer.py:50-51: messages[:-KEEP_RECENT] and messages[-KEEP_RECENT:]
old_messages(msgs) ==
    SubSeq(msgs, 1, Len(msgs) - KEEP_RECENT)
recent_messages(msgs) ==
    SubSeq(msgs, Len(msgs) - KEEP_RECENT + 1, Len(msgs))

RECURSIVE FixLoop(_, _)
\* summarizer.py:146-152: a filler of the other role goes in before every
\* message whose role equals the role of the last message kept.
FixLoop(fixed, rest) ==
    IF rest = << >> THEN fixed
    ELSE LET msg == Head(rest)
         IN FixLoop(IF msg.role = fixed[Len(fixed)].role
                    THEN fixed \o << Filler(OtherRole(msg.role)), msg >>
                    ELSE Append(fixed, msg),
                    Tail(rest))

\* The list passed through as it is.
fix_role_alternation_skipped(msgs) == msgs

\* summarizer._fix_role_alternation
fix_role_alternation(msgs) ==
    IF msgs = << >> THEN msgs
    ELSE LET fixed == FixLoop(<< Head(msgs) >>, Tail(msgs))
         IN IF fixed[1].role # "user"
            THEN << Filler("user") >> \o fixed
            ELSE fixed

\* The failure path returning only the newest messages.
summarizer_failed_keeps_recent(msgs) == recent_messages(msgs)

\* summarizer.py:69-71: `except Exception`: log, return messages
summarizer_failed(msgs) == msgs

\* summarizer.py:81-98: the list built after a successful summary
summarized(msgs) ==
    LET recent == recent_messages(msgs)
    IN fix_role_alternation(
           << SummaryMessage >>
           \o (IF recent # << >> /\ recent[1].role = "user"
               THEN << Filler("assistant") >> ELSE << >>)
           \o recent)

\* summarizer.py:46: `if len(messages) < SUMMARIZE_THRESHOLD: return messages`
below_threshold(msgs) == Len(msgs) < SUMMARIZE_THRESHOLD

\* how far above the threshold the longest history is
MaxOver == 5

\* Histories given to maybe_summarize: empty, one turn under the threshold,
\* at it, one over it and MaxOver over it. The turns are numbered from the
\* oldest; the roles of the newest KEEP_RECENT turns are arbitrary (a gated
\* run saves a user turn without an assistant turn), the older ones alternate
\* from either role.
HistoryLengths ==
    {0, SUMMARIZE_THRESHOLD - 1, SUMMARIZE_THRESHOLD, SUMMARIZE_THRESHOLD + 1,
     SUMMARIZE_THRESHOLD + MaxOver}
Roles == {"user", "assistant"}
SummarizeInputs ==
    UNION { { [i \in 1..n |->
                 Turn(IF i > n - KEEP_RECENT THEN tail[i - (n - KEEP_RECENT)]
                      ELSE IF i % 2 = 1 THEN first ELSE OtherRole(first),
                      "text", i, ShortMessage)] :
                first \in Roles, tail \in [1..KEEP_RECENT -> Roles] } :
            n \in HistoryLengths \ {0} } \cup { << >> }

InitSummarize ==
    /\ ApprovalIdle
    /\ HistoryIdle
    /\ StartIdle
    /\ ResumeIdle
    /\ BlockIdle
    /\ RefresherIdle
    /\ LockIdle
    /\ TruncateIdle
    /\ CallClaudeIdle
    /\ SelectIdle
    /\ ClassifierIdle
    /\ RunIdle
    /\ McpIdle
    /\ fpc = "called"
    /\ arg_messages \in SummarizeInputs
    /\ arg_max_tokens = 0
    /\ returned = << >>
    /\ summarizer_calls = 0
    /\ summaries = 0

\* maybe_summarize(client, db, project_id, messages) is called and returns
\* or raises. provider_ok: client.messages.create returns a text;
\* db_ok: the INSERT and the commit succeed.
maybe_summarize(provider_ok, db_ok) ==
    /\ fpc = "called"
    /\ IF below_threshold(arg_messages)
       THEN /\ returned' = arg_messages
            /\ fpc' = "returned"
            /\ UNCHANGED <<summarizer_calls, summaries>>
       ELSE /\ summarizer_calls' = summarizer_calls + 1
            /\ IF ~provider_ok
               THEN /\ returned' = summarizer_failed(arg_messages)
                    /\ fpc' = "returned"
                    /\ UNCHANGED summaries
               ELSE IF ~db_ok
               THEN /\ fpc' = "raised"
                    /\ UNCHANGED <<returned, summaries>>
               ELSE /\ summaries' = summaries + 1
                    /\ returned' = summarized(arg_messages)
                    /\ fpc' = "returned"
    /\ UNCHANGED <<arg_messages, arg_max_tokens>>
    /\ UNCHANGED nonCtxVars

NextSummarize == \E provider_ok \in BOOLEAN, db_ok \in BOOLEAN :
                    maybe_summarize(provider_ok, db_ok)

SpecSummarize == InitSummarize /\ [][NextSummarize]_vars

\* =========================================== classifier.classify_request

\* categories of MCP_TYPE_META, and one the metadata does not know
AllCategories == {MCP_TYPE_META(t).category : t \in ServerTypes}
UnknownCategory == "weather"

\* What the classifier's model call produces: the call raises ("api_error"),
\* the text is not JSON ("not_json"), it is JSON of another shape, e.g. a list
\* or "categories": null ("bad_shape"), or it is a JSON object whose keys
\* needs_tools, is_simple and categories may each be absent.
ModelReplies ==
    { [NoReply EXCEPT !.kind = k] : k \in {"api_error", "not_json", "bad_shape"} }
    \cup [kind : {"json"},
          needs_tools : {"true", "false", "absent"},
          is_simple : {"true", "false", "absent"},
          has_categories : {TRUE},
          categories : SUBSET (AllCategories \cup {UnknownCategory})]
    \cup [kind : {"json"},
          needs_tools : {"true", "false", "absent"},
          is_simple : {"true", "false", "absent"},
          has_categories : {FALSE},
          categories : {{}}]

\* A fallback that answers without tools.
classifier_fallback_no_tools(available) ==
    [needs_tools |-> FALSE, is_simple |-> TRUE, categories |-> {}]

\* classifier.py:114-120: `except Exception`: every tool of every category
classifier_fallback(available) ==
    [needs_tools |-> TRUE, is_simple |-> FALSE, categories |-> available]

\* The categories of the reply taken as they are.
filter_categories_none(cats, available) == cats

\* classifier.py:107: [c for c in data.get("categories", []) if c in available]
filter_categories(cats, available) == {c \in cats : c \in available}

\* classifier.classify_request, from the reply of the model call
classify_request(r, available) ==
    IF r.kind # "json" THEN classifier_fallback(available)
    ELSE [needs_tools |-> r.needs_tools # "false",    \* data.get(.., True)
          is_simple |-> r.is_simple = "true",         \* data.get(.., False)
          categories |-> filter_categories(r.categories, available)]

\* A project whose configured instances give available_categories; the
\* instances registered (running) are any of the configured ones, since
\* _start_instance may have failed. get_project_tools reads the registry, so
\* only the registered types count for it (the policy prefixes of a type that
\* is not registered match no registered tool).
InitClassify ==
    /\ ApprovalIdle
    /\ HistoryIdle
    /\ StartIdle
    /\ ResumeIdle
    /\ BlockIdle
    /\ RefresherIdle
    /\ LockIdle
    /\ TruncateIdle
    /\ CallClaudeIdle
    /\ RunIdle
    /\ McpIdle
    /\ ContextIdle
    /\ reply = NoReply
    /\ available_categories \in SUBSET AllCategories
    /\ classified = NoClassification
    /\ sel_project \in
          [types : SUBSET {t \in ServerTypes :
                             MCP_TYPE_META(t).category \in available_categories},
           phase : Phases]
    /\ selected = FALSE
    /\ offered = {}

\* classify_request(client, user_message, available_categories) is called;
\* the model call produces r and the function returns.
CallClassifyRequest(r) ==
    /\ reply = NoReply
    /\ reply' = r
    /\ classified' = classify_request(r, available_categories)
    /\ UNCHANGED available_categories
    /\ UNCHANGED nonClsVars

\* core.py:139-157: off the fast path, the tools offered to the provider.
SelectProjectTools ==
    /\ reply # NoReply
    /\ ~selected
    /\ ~takes_fast_path(classified)
    /\ selected' = TRUE
    /\ offered' = SelectTools(sel_project, classified)
    /\ UNCHANGED sel_project
    /\ UNCHANGED nonSelVars

NextClassify ==
    \/ \E r \in ModelReplies : CallClassifyRequest(r)
    \/ SelectProjectTools

SpecClassify == InitClassify /\ [][NextClassify]_vars

\* ================================================ AgentCore._call_claude

\* core.py:474
max_extra_retries == 3

\* The value of the retry-after response header, as characters; the empty
\* text stands for a header that is absent (headers.get gives None) or empty:
\* both are falsy at core.py:502.
NoHint == << >>
Hints == {NoHint, <<"7">>, <<"1", "2">>, <<"1", ".", "5">>}

Digits == <<"0", "1", "2", "3", "4", "5", "6", "7", "8", "9">>
IsDigit(c) == \E d \in 1..Len(Digits) : Digits[d] = c
DigitValue(c) == (CHOOSE d \in 1..Len(Digits) : Digits[d] = c) - 1

RECURSIVE DecimalValue(_)
DecimalValue(text) ==
    IF text = << >> THEN 0
    ELSE 10 * DecimalValue(SubSeq(text, 1, Len(text) - 1))
         + DigitValue(text[Len(text)])

\* int(retry_after) for a text without sign or blanks: the number its decimal
\* digits denote, ValueError for anything else.
int(text) ==
    IF text # << >> /\ \A i \in 1..Len(text) : IsDigit(text[i])
    THEN [ok |-> TRUE, value |-> DecimalValue(text)]
    ELSE [ok |-> FALSE, value |-> 0]

\* What client.messages.create can raise: AuthenticationError (401),
\* RateLimitError (429, with its retry-after header), another APIStatusError
\* (529 overloaded, 500), or an exception that is not an APIStatusError
\* (connection error, timeout).
ProviderErrors ==
    {[kind |-> "auth", status_code |-> 401, retry_after |-> NoHint]}
    \cup {[kind |-> "rate_limit", status_code |-> 429, retry_after |-> h] : h \in Hints}
    \cup {[kind |-> "status", status_code |-> c, retry_after |-> NoHint] : c \in {529, 500}}
    \cup {[kind |-> "exception", status_code |-> 0, retry_after |-> NoHint]}

\* What a handler of the loop does next.
Raise(error) == [do |-> "raise", wait |-> 0, error |-> error]
SleepAndContinue(wait) == [do |-> "sleep", wait |-> wait, error |-> "none"]
RefreshAndRetry == [do |-> "refresh", wait |-> 0, error |-> "none"]

\* core.py:482-487
authentication_error(refresher) ==
    IF ~refresher THEN Raise("auth") ELSE RefreshAndRetry

\* core.py:502
rate_limit_backoff(n) == 15 * (2 ^ n)

rate_limit_error_always_retries(e, n) ==
    SleepAndContinue(rate_limit_backoff(n))

\* core.py:493-506
rate_limit_error(e, n) ==
    IF n >= max_extra_retries THEN Raise("rate_limit")
    ELSE IF e.retry_after # NoHint
         THEN IF int(e.retry_after).ok
              THEN SleepAndContinue(int(e.retry_after).value)
              ELSE Raise("ValueError")
         ELSE SleepAndContinue(rate_limit_backoff(n))

overloaded_backoff_flat(n) == 10

\* core.py:509
overloaded_backoff(n) == 10 * (2 ^ n)

api_status_error_retries_all(e, n) ==
    IF n < max_extra_retries
    THEN SleepAndContinue(overloaded_backoff(n))
    ELSE Raise(IF e.status_code = 529 THEN "overloaded" ELSE "status")

\* core.py:507-515
api_status_error(e, n) ==
    IF e.status_code = 529 /\ n < max_extra_retries
    THEN SleepAndContinue(overloaded_backoff(n))
    ELSE Raise(IF e.status_code = 529 THEN "overloaded" ELSE "status")

\* core.py:475: after `continue` the loop takes the next value of
\* range(max_extra_retries + 1); when there is none the function ends
\* without a return statement and gives None.
loop_next(n) == IF n + 1 <= max_extra_retries THEN "try" ELSE "returned_none"

\* core.py:482-518: the except clause that matches e, in the order written.
handle(e, n, refresher) ==
    CASE e.kind = "auth" -> authentication_error(refresher)
      [] e.kind = "rate_limit" -> rate_limit_error(e, n)
      [] e.kind = "status" -> api_status_error(e, n)
      [] OTHER -> Raise("exception")

\* The error a create raises as it is named when it leaves the function.
ErrorName(e) ==
    CASE e.kind = "status" /\ e.status_code = 529 -> "overloaded"
      [] OTHER -> e.kind

retry_failed_continues(e) == [pc |-> "try", error |-> "none"]

\* core.py:488: the create after the refresh is inside the except clause, so
\* whatever it raises leaves the function.
retry_failed(e) == [pc |-> "raised", error |-> ErrorName(e)]

InitCallClaude ==
    /\ ApprovalIdle
    /\ HistoryIdle
    /\ StartIdle
    /\ ResumeIdle
    /\ BlockIdle
    /\ RefresherIdle
    /\ LockIdle
    /\ TruncateIdle
    /\ SelectIdle
    /\ ClassifierIdle
    /\ RunIdle
    /\ McpIdle
    /\ ContextIdle
    /\ cc_pc = "try"
    /\ attempt = 0
    /\ has_refresher \in BOOLEAN
    /\ creates = 0
    /\ caught = << >>
    /\ sleeps = << >>
    /\ refreshes = 0
    /\ rebuilds = 0
    /\ retries = 0
    /\ surfaced = "none"

\* core.py:477-481: the create of the loop answers.
CreateReturns ==
    /\ cc_pc = "try"
    /\ creates' = creates + 1
    /\ cc_pc' = "returned"
    /\ UNCHANGED <<attempt, has_refresher, caught, sleeps, refreshes, rebuilds,
                   retries, surfaced>>
    /\ UNCHANGED nonCcVars

\* core.py:477, 482-518: the create of the loop raises e and its handler runs
\* up to its raise, its sleep and continue, or its refresh.
CreateRaises(e) ==
    /\ cc_pc = "try"
    /\ creates' = creates + 1
    /\ caught' = Append(caught, e)
    /\ LET h == handle(e, attempt, has_refresher) IN
         CASE h.do = "raise" ->
                /\ cc_pc' = "raised"
                /\ surfaced' = h.error
                /\ UNCHANGED <<attempt, sleeps>>
           [] h.do = "sleep" ->
                /\ sleeps' = Append(sleeps, h.wait)
                /\ attempt' = attempt + 1
                /\ cc_pc' = loop_next(attempt)
                /\ UNCHANGED surfaced
           [] OTHER ->
                /\ cc_pc' = "refresh"
                /\ UNCHANGED <<attempt, sleeps, surfaced>>
    /\ UNCHANGED <<has_refresher, refreshes, rebuilds, retries>>
    /\ UNCHANGED nonCcVars

\* core.py:487, 520-524: refresher.refresh() raises OAuthRefreshError
\* (auth.py:50, 70, 73, 79), or the client is recreated.
RefreshAndRecreateClient(ok) ==
    /\ cc_pc = "refresh"
    /\ refreshes' = refreshes + 1
    /\ IF ok
       THEN /\ rebuilds' = rebuilds + 1
            /\ cc_pc' = "retry"
            /\ UNCHANGED surfaced
       ELSE /\ cc_pc' = "raised"
            /\ surfaced' = "refresh"
            /\ UNCHANGED rebuilds
    /\ UNCHANGED <<attempt, has_refresher, creates, caught, sleeps, retries>>
    /\ UNCHANGED nonCcVars

\* core.py:488-492: the create after the refresh answers.
RetryReturns ==
    /\ cc_pc = "retry"
    /\ creates' = creates + 1
    /\ retries' = retries + 1
    /\ cc_pc' = "returned"
    /\ UNCHANGED <<attempt, has_refresher, caught, sleeps, refreshes, rebuilds,
                   surfaced>>
    /\ UNCHANGED nonCcVars

\* core.py:488: the create after the refresh raises e.
RetryRaises(e) ==
    /\ cc_pc = "retry"
    /\ creates' = creates + 1
    /\ retries' = retries + 1
    /\ cc_pc' = retry_failed(e).pc
    /\ surfaced' = retry_failed(e).error
    /\ UNCHANGED <<attempt, has_refresher, caught, sleeps, refreshes, rebuilds>>
    /\ UNCHANGED nonCcVars

NextCallClaude ==
    \/ CreateReturns
    \/ \E e \in ProviderErrors : CreateRaises(e)
    \/ \E ok \in BOOLEAN : RefreshAndRecreateClient(ok)
    \/ RetryReturns
    \/ \E e \in ProviderErrors : RetryRaises(e)

SpecCallClaude == InitCallClaude /\ [][NextCallClaude]_vars

\* Every awaited create, refresh and sleep comes back: the SDK and httpx calls
\* have timeouts, asyncio.sleep is finite.
SpecCallClaudeLive == SpecCallClaude /\ WF_vars(NextCallClaude)

\* ======================================== AgentCore._truncate_tool_result

\* core.py:572, the default of max_chars
DEFAULT_MAX_CHARS == 2000

\* core.py:576: "\n...[обрезано]", one element per character (LF is the line
\* feed; the Cyrillic letters are written by their Latin counterparts).
TruncationMarker ==
    <<"LF", ".", ".", ".", "[", "o", "b", "r", "e", "z", "a", "n", "o", "]">>

truncate_tool_result_whole(text, limit) == text

\* core.py:571-576
truncate_tool_result(text, limit) ==
    IF Len(text) <= limit THEN text
    ELSE SubSeq(text, 1, limit) \o TruncationMarker

\* Tool result texts: every text of up to MaxTextLen characters over two
\* letters, and texts just below, at and just above the default limit.
MaxTextLen == 4
ShortTexts == UNION {[1..n -> {"a", "b"}] : n \in 0..MaxTextLen}
LongText(n) == [i \in 1..n |-> IF i % 2 = 0 THEN "a" ELSE "b"]
LongTexts == {LongText(DEFAULT_MAX_CHARS + d) : d \in {-1, 0, 1}}

InitTruncate ==
    /\ ApprovalIdle
    /\ HistoryIdle
    /\ StartIdle
    /\ ResumeIdle
    /\ BlockIdle
    /\ RefresherIdle
    /\ LockIdle
    /\ CallClaudeIdle
    /\ SelectIdle
    /\ ClassifierIdle
    /\ RunIdle
    /\ McpIdle
    /\ ContextIdle
    /\ tr_pc = "idle"
    /\ result_text \in ShortTexts \cup LongTexts
    /\ max_chars \in 0..MaxTextLen
    /\ site = "none"
    /\ tool_result_content = << >>

\* _truncate_tool_result(text, max_chars) with an explicit limit
CallTruncateToolResult ==
    /\ tr_pc = "idle"
    /\ tr_pc' = "done"
    /\ site' = "call"
    /\ tool_result_content' = truncate_tool_result(result_text, max_chars)
    /\ UNCHANGED <<result_text, max_chars>>
    /\ UNCHANGED nonTruncVars

\* core.py:266-272: run builds the tool_result block of an executed tool.
RunAppendsToolResult ==
    /\ tr_pc = "idle"
    /\ tr_pc' = "done"
    /\ site' = "run"
    /\ max_chars' = DEFAULT_MAX_CHARS
    /\ tool_result_content' = truncate_tool_result(result_text, DEFAULT_MAX_CHARS)
    /\ UNCHANGED result_text
    /\ UNCHANGED nonTruncVars

\* core.py:383-390: execute_approved_tool builds the tool_result turn.
ExecuteApprovedAppendsToolResult ==
    /\ tr_pc = "idle"
    /\ tr_pc' = "done"
    /\ site' = "execute_approved_tool"
    /\ max_chars' = DEFAULT_MAX_CHARS
    /\ tool_result_content' = truncate_tool_result(result_text, DEFAULT_MAX_CHARS)
    /\ UNCHANGED result_text
    /\ UNCHANGED nonTruncVars

NextTruncate ==
    \/ CallTruncateToolResult
    \/ RunAppendsToolResult
    \/ ExecuteApprovedAppendsToolResult

SpecTruncate == InitTruncate /\ [][NextTruncate]_vars

\* ============================== MCPManager operations as concurrent tasks

\* stop_project and call_tool calls in one execution
MaxLockOps == 3

\* manager.py:64, 89: the operations whose body is under `async with
\* self._lock`; start_all, stop_all and call_tool never take it.
acquires_lock(op) == op \in {"start_project", "stop_project"}

\* the operations suspended at an await in the middle of their body
InFlight ==
    (IF sp.pc = "connecting" THEN {"start_project"} ELSE {})
    \cup (IF ct.pc = "reconnecting" THEN {"call_tool"} ELSE {})
    \cup (IF sa.pc = "closing" THEN {"stop_all"} ELSE {})

\* op changes the instance table, the reference sets or the registry now
Mutation(op) ==
    [op |-> op, locked |-> acquires_lock(op), during |-> InFlight \ {op}]

PresentInstances == {i \in InstanceIds : instances[i].present}

\* manager.py:65-81: the loop of start_project from `ids` on, up to its next
\* await (the connect of an instance that is not in the table) or its end.
RECURSIVE start_project_until_await(_, _, _)
start_project_until_await(m, project_id, ids) ==
    IF ids = << >> THEN [m |-> m, cur |-> "none", todo |-> << >>]
    ELSE LET instance_id == Head(ids)
             m1 == [m EXCEPT !.refcount[instance_id] = @ \cup {project_id}]
         IN IF ~mcp_instances[instance_id].configured
            THEN start_project_until_await(m, project_id, Tail(ids))
            ELSE IF ~m1.instances[instance_id].present
            THEN [m |-> m1, cur |-> instance_id, todo |-> Tail(ids)]
            ELSE start_project_until_await(m1, project_id, Tail(ids))

\* The bot at boot with one project in the settings file, on the first of two
\* configured gmail instances.
InitLock ==
    /\ ApprovalIdle
    /\ HistoryIdle
    /\ StartIdle
    /\ ResumeIdle
    /\ BlockIdle
    /\ RefresherIdle
    /\ TruncateIdle
    /\ CallClaudeIdle
    /\ SelectIdle
    /\ ClassifierIdle
    /\ RunIdle
    /\ ContextIdle
    /\ LockIdle
    /\ projects = {ProjectOrder[1]}
    /\ mcp_services = [p \in Projects |->
                         IF p = ProjectOrder[1] THEN <<"i1">> ELSE << >>]
    /\ mcp_instances = [i \in InstanceIds |-> McpInstanceConfig("gmail", TRUE)]
    /\ instances = [i \in InstanceIds |-> NoClient]
    /\ refcount = [i \in InstanceIds |-> {}]
    /\ orphaned_stacks = {}
    /\ reg_instances = [i \in InstanceIds |-> NotRegistered]
    /\ tool_to_client = [n \in RoutedNames |-> "none"]
    /\ all_tools = {}
    /\ live = {}
    /\ spawned = 0
    /\ start_tasks = {}
    /\ lifecycle = "boot"
    /\ last_call = NoCall

\* manager.py:33-56, from main.py:60 before the bot serves anything.
StartAllAtBoot ==
    /\ do_start_all
    /\ last_mutation' = Mutation("start_all")
    /\ UNCHANGED <<lock, sp, ct, sa, ops>>
    /\ UNCHANGED nonMgrLockVars

\* the start_project task goes on from the manager m to its next await, or
\* ends and releases the lock
StartProjectRun(m, pid, ids) ==
    LET r == start_project_until_await(m, pid, ids)
    IN /\ SetMgr(r.m)
       /\ last_mutation' = IF r.m # Mgr THEN Mutation("start_project")
                           ELSE last_mutation
       /\ IF r.cur = "none"
          THEN /\ lock' = "free"
               /\ sp' = NoStartProject
               /\ start_tasks' = start_tasks \ {pid}
               /\ mcp_services' = Collect(mcp_services, projects, start_tasks')
          ELSE /\ lock' = "start_project"
               /\ sp' = [pc |-> "connecting", pid |-> pid, cur |-> r.cur,
                         todo |-> r.todo]
               /\ UNCHANGED <<start_tasks, mcp_services>>

\* manager.py:64-76: a background start_project task gets the lock and runs
\* to its first connect.
StartProjectAcquire(pid) ==
    /\ lifecycle = "up"
    /\ pid \in start_tasks
    /\ lock = "free"
    /\ StartProjectRun(Mgr, pid, mcp_services[pid])
    /\ UNCHANGED <<projects, mcp_instances, lifecycle, ct, sa, ops>>
    /\ UNCHANGED nonMgrLockVars

\* manager.py:76, 134-155: the connect the task awaited is over; the instance
\* is registered and entered in the table, and the loop goes on.
StartProjectConnected(ok) ==
    /\ lifecycle = "up"
    /\ sp.pc = "connecting"
    /\ StartProjectRun(start_instance(Mgr, sp.cur, ok), sp.pid, sp.todo)
    /\ UNCHANGED <<projects, mcp_instances, lifecycle, ct, sa, ops>>
    /\ UNCHANGED nonMgrLockVars

\* on_delete_confirm: its stop_project waits for the lock (manager.py:89) and
\* has no await in its body.
DeleteConfirmUnderLock(pid) ==
    /\ lock = "free"
    /\ ops < MaxLockOps
    /\ ops' = ops + 1
    /\ do_delete_confirm(pid)
    /\ last_mutation' = Mutation("stop_project")
    /\ UNCHANGED <<lock, sp, ct, sa>>
    /\ UNCHANGED nonMgrLockVars

\* on_removemcp_confirm: likewise.
RemoveMcpConfirmUnderLock(pid, iid) ==
    /\ lock = "free"
    /\ ops < MaxLockOps
    /\ ops' = ops + 1
    /\ do_removemcp_confirm(pid, iid)
    /\ last_mutation' = Mutation("stop_project")
    /\ UNCHANGED <<lock, sp, ct, sa>>
    /\ UNCHANGED nonMgrLockVars

\* manager.py:196-203, 212-214: call_tool resolves the client; a connected
\* client is called at once, for a disconnected one call_tool awaits
\* client.reconnect().
CallToolBegin(tool_name, outcome) ==
    /\ lifecycle = "up"
    /\ ct.pc = "idle"
    /\ ops < MaxLockOps
    /\ ops' = ops + 1
    /\ LET client == get_client_for_tool(Mgr, tool_name)
       IN /\ client # "none"
          /\ IF instances[client].session
             THEN /\ SetMgr(IF outcome = "timeout"
                            THEN timeout_disconnects(Mgr, client) ELSE Mgr)
                  /\ UNCHANGED ct
             ELSE /\ SetMgr(Mgr)
                  /\ ct' = [pc |-> "reconnecting", client |-> client]
    /\ UNCHANGED <<projects, mcp_services, mcp_instances, start_tasks, lifecycle,
                   lock, sp, sa, last_mutation>>
    /\ UNCHANGED nonMgrLockVars

\* manager.py:203-214: the reconnect is over; after a successful one the
\* client is registered again and the tool is called, a failed one raises.
CallToolReconnected(ok, outcome) ==
    /\ lifecycle = "up"
    /\ ct.pc = "reconnecting"
    /\ LET m1 == reconnect(Mgr, ct.client, ok)
       IN IF m1.instances[ct.client].session
          THEN /\ last_mutation' = Mutation("call_tool")
               /\ SetMgr(IF outcome = "timeout"
                         THEN timeout_disconnects(m1, ct.client) ELSE m1)
          ELSE /\ SetMgr(m1)
               /\ UNCHANGED last_mutation
    /\ ct' = NoCallTool
    /\ UNCHANGED <<projects, mcp_services, mcp_instances, start_tasks, lifecycle,
                   lock, sp, sa, ops>>
    /\ UNCHANGED nonMgrLockVars

\* manager.py:123-132: the orphaned stacks are closed and every table is
\* cleared.
StopAllClear ==
    /\ SetMgr([Mgr EXCEPT
                 !.live = @ \ orphaned_stacks,
                 !.orphaned_stacks = {},
                 !.instances = [i \in InstanceIds |-> NoClient],
                 !.refcount = [i \in InstanceIds |-> {}],
                 !.reg_instances = [i \in InstanceIds |-> NotRegistered],
                 !.tool_to_client = [n \in RoutedNames |-> "none"],
                 !.all_tools = {}])
    /\ sa' = [sa EXCEPT !.pc = "done"]
    /\ lifecycle' = "down"
    /\ last_mutation' = Mutation("stop_all")

\* manager.py:121: stop_all (main.py:115, the shutdown task) enters its loop
\* over instances.values() and awaits the first disconnect; with no client
\* and no orphaned stack there is nothing to await.
StopAllBegin ==
    /\ lifecycle = "up"
    /\ sa.pc = "idle"
    /\ IF PresentInstances = {} /\ orphaned_stacks = {}
       THEN StopAllClear
       ELSE /\ sa' = [pc |-> "closing", seen |-> {},
                      size |-> Cardinality(PresentInstances)]
            /\ SetMgr(Mgr)
            /\ UNCHANGED <<lifecycle, last_mutation>>
    /\ UNCHANGED <<projects, mcp_services, mcp_instances, start_tasks, lock, sp,
                   ct, ops>>
    /\ UNCHANGED nonMgrLockVars

\* manager.py:121-132: the next round of the loop. A dict whose size changed
\* since the loop began makes the iteration raise RuntimeError; otherwise the
\* next client is disconnected, and after the last one the orphaned stacks
\* are closed and every table is cleared.
StopAllStep ==
    /\ lifecycle = "up"
    /\ sa.pc = "closing"
    /\ IF Cardinality(PresentInstances) # sa.size
       THEN /\ sa' = [sa EXCEPT !.pc = "raised"]
            /\ SetMgr(Mgr)
            /\ UNCHANGED <<lifecycle, last_mutation>>
       ELSE IF PresentInstances \ sa.seen # {}
       THEN /\ \E iid \in PresentInstances \ sa.seen :
                 /\ SetMgr(disconnect(Mgr, iid))
                 /\ sa' = [sa EXCEPT !.seen = @ \cup {iid}]
            /\ UNCHANGED <<lifecycle, last_mutation>>
       ELSE StopAllClear
    /\ UNCHANGED <<projects, mcp_services, mcp_instances, start_tasks, lock, sp,
                   ct, ops>>
    /\ UNCHANGED nonMgrLockVars

NextLock ==
    \/ StartAllAtBoot
    \/ \E pid \in Projects, services \in ServiceLists :
         on_create_confirm(pid, services)
    \/ \E pid \in Projects : StartProjectAcquire(pid)
    \/ \E ok \in BOOLEAN : StartProjectConnected(ok)
    \/ \E pid \in Projects : DeleteConfirmUnderLock(pid)
    \/ \E pid \in Projects, iid \in InstanceIds :
         RemoveMcpConfirmUnderLock(pid, iid)
    \/ \E tool_name \in AllToolNames, outcome \in {"ok", "timeout"} :
         CallToolBegin(tool_name, outcome)
    \/ \E ok \in BOOLEAN, outcome \in {"ok", "timeout"} :
         CallToolReconnected(ok, outcome)
    \/ StopAllBegin
    \/ StopAllStep

SpecLock == InitLock /\ [][NextLock]_vars

\* ================================================== OAuthRefresher.refresh

\* The access token has expired (generation 0); every create sent with it is
\* answered 401, a create sent with a refreshed token is answered.
InitRefresh ==
    /\ ApprovalIdle
    /\ HistoryIdle
    /\ StartIdle
    /\ ResumeIdle
    /\ BlockIdle
    /\ LockIdle
    /\ TruncateIdle
    /\ CallClaudeIdle
    /\ SelectIdle
    /\ ClassifierIdle
    /\ RunIdle
    /\ McpIdle
    /\ ContextIdle
    /\ rf_pc = [t \in Callers |-> "idle"]
    /\ sent_with = [t \in Callers |-> 0]
    /\ rf_lock = "free"
    /\ auth_token = 0
    /\ refresh_token \in BOOLEAN
    /\ posts = 0

\* core.py:477: the caller sends its create with the client's current token.
SendCreate(t) ==
    /\ rf_pc[t] = "idle"
    /\ rf_pc' = [rf_pc EXCEPT ![t] = "calling"]
    /\ sent_with' = [sent_with EXCEPT ![t] = auth_token]
    /\ UNCHANGED <<rf_lock, auth_token, refresh_token, posts>>
    /\ UNCHANGED nonRefVars

\* core.py:477-487: the create is answered, or raises AuthenticationError and
\* the caller calls refresher.refresh(), where it waits for the lock.
CreateAnswered(t) ==
    /\ rf_pc[t] = "calling"
    /\ rf_pc' = [rf_pc EXCEPT ![t] = IF sent_with[t] = 0 THEN "waiting"
                                     ELSE "returned"]
    /\ UNCHANGED <<sent_with, rf_lock, auth_token, refresh_token, posts>>
    /\ UNCHANGED nonRefVars

\* auth.py:47-65: the caller gets the lock; without a refresh token it raises
\* and releases, otherwise it sends the POST and awaits the answer.
AcquireRefreshLock(t) ==
    /\ rf_pc[t] = "waiting"
    /\ rf_lock = "free"
    /\ IF ~refresh_token
       THEN /\ rf_pc' = [rf_pc EXCEPT ![t] = "raised"]
            /\ UNCHANGED <<rf_lock, posts>>
       ELSE /\ rf_pc' = [rf_pc EXCEPT ![t] = "posting"]
            /\ rf_lock' = t
            /\ posts' = posts + 1
    /\ UNCHANGED <<sent_with, auth_token, refresh_token>>
    /\ UNCHANGED nonRefVars

\* auth.py:66-95, core.py:523: the token endpoint answers. With a new access
\* token the settings are updated, the lock is released and the caller
\* recreates the client; otherwise OAuthRefreshError leaves _call_claude.
RefreshAnswered(t, ok) ==
    /\ rf_pc[t] = "posting"
    /\ rf_lock' = "free"
    /\ IF ok
       THEN /\ auth_token' = auth_token + 1
            /\ rf_pc' = [rf_pc EXCEPT ![t] = "retry"]
       ELSE /\ rf_pc' = [rf_pc EXCEPT ![t] = "raised"]
            /\ UNCHANGED auth_token
    /\ UNCHANGED <<sent_with, refresh_token, posts>>
    /\ UNCHANGED nonRefVars

\* core.py:488-492: the create after the refresh, with the new token.
RetryAfterRefresh(t) ==
    /\ rf_pc[t] = "retry"
    /\ rf_pc' = [rf_pc EXCEPT ![t] = "returned"]
    /\ sent_with' = [sent_with EXCEPT ![t] = auth_token]
    /\ UNCHANGED <<rf_lock, auth_token, refresh_token, posts>>
    /\ UNCHANGED nonRefVars

NextRefresh ==
    \/ \E t \in Callers : SendCreate(t)
    \/ \E t \in Callers : CreateAnswered(t)
    \/ \E t \in Callers : AcquireRefreshLock(t)
    \/ \E t \in Callers, ok \in BOOLEAN : RefreshAnswered(t, ok)
    \/ \E t \in Callers : RetryAfterRefresh(t)

SpecRefresh == InitRefresh /\ [][NextRefresh]_vars

\* ================================================================= claims

\* kinds of turn in a list returned by maybe_summarize
IsSummary(m) == m.kind = "summary"
IsFiller(m) == m.kind = "filler"
IsOriginal(m) == m.kind = "text"
\* positions of the retained suffix followed by a turn of the same role
SameRolePairs(recent) ==
    {i \in 1..(Len(recent) - 1) : recent[i].role = recent[i + 1].role}
\* maybe_summarize replaced the history: the provider answered and the
\* summary row was written
Summarized == fpc = "returned" /\ summaries = 1

\* C1: resolving the same pending approval twice, in any interleaving of the
\* callbacks' await points, dispatches the gated tool to MCPManager.call_tool
\* at most once.
C1_ExactlyOnceApproval ==
    \A id \in ApprovalIds : toolExec[id] <= 1

\* C2: once an approval is resolved as rejected, no step dispatches its gated
\* tool or makes the provider call that resumes the conversation.
C2_RejectedNeverExecutes ==
    [][\A id \in ApprovalIds :
          status[id] = "rejected" =>
              /\ toolExec'[id] = toolExec[id]
              /\ claudeCalls'[id] = claudeCalls[id]]_vars

\* C3: a status only moves pending -> approved | rejected, once; a
\* resolve_approval on a row that is no longer pending returns False and
\* leaves the status as it was.
C3_ApprovalResolvedOnce ==
    [][/\ \A id \in ApprovalIds :
            /\ status[id] \in {"approved", "rejected"} => status'[id] = status[id]
            /\ status[id] = "pending" =>
                   status'[id] \in {"pending", "approved", "rejected"}
       /\ \A t \in Callbacks :
            (cb[t].pc \in {"resolve", "rj_resolve"} /\ cb'[t].pc # cb[t].pc) =>
                /\ cb'[t].ret = IF status[cb[t].id] = "pending"
                                THEN "True" ELSE "False"
                /\ status[cb[t].id] # "pending" => status' = status
                /\ status[cb[t].id] = "pending" =>
                       status'[cb[t].id] =
                           IF cb[t].kind = "approve" THEN "approved" ELSE "rejected"
      ]_vars

\* C3 witness: a second resolution has run on a row already resolved the
\* other way, and came back False.
C3_SecondResolutionRefused ==
    \E t \in Callbacks :
        /\ cb[t].kind = "reject"
        /\ cb[t].pc = "done"
        /\ cb[t].ret = "False"
        /\ status[cb[t].id] = "approved"

\* C7: execute_approved_tool resumes the tool-use loop: it does not return
\* while the provider's latest response is a request for further tools (those
\* are gated or executed and another round follows).
C7_ResumeContinuesLoop ==
    \A t \in Callbacks :
        (cb[t].kind = "approve" /\ cb[t].stop = "tool_use") => cb[t].pc # "done"

\* The run has returned (normally or with a pending approval) or raised.
RunReturned == rpc \in {"done", "awaiting_approval"}
RunEnded == rpc \in {"done", "awaiting_approval", "raised"}

\* C4: no tool in the active phase's approval-required set is dispatched to
\* call_tool by the run, whatever the allowed prefixes (the wildcard included).
C4_GatedNeverAutoExecuted ==
    \A i \in 1..Len(tool_results) :
        tool_results[i] \notin get_active_policy(project).requires_approval

\* C4 witness: under the wildcard policy a response asked for an ungated tool
\* and then a gated one: the first ran, the second raised the gate.
C4_GateFiredUnderWildcard ==
    /\ Wildcard \in get_active_policy(project).allowed_prefixes
    /\ pending_approval # NoPending
    /\ tool_results # << >>

\* C5: under default_tool_policy, in the drafts phase no tool whose registered
\* name matches a write prefix of its type is dispatched by the run.
C5_DraftsWritesGated ==
    project.phase = "drafts" =>
        \A i \in 1..Len(tool_results) :
            ~ \E t \in project.types :
                \E p \in MCP_TYPE_META(t).tool_prefixes_write :
                    IsPrefix(TOOL_PREFIX_MAP(t) \o p, tool_results[i])

\* C6: when a gated tool is requested the run has returned with
\* pending_approval set, the snapshot (also as stored by handle_query) ends
\* with the assistant turn of the round that requested the tool, and from then
\* on no provider call is made and no tool executed.
C6_GateReturnsImmediately ==
    /\ [](pending_approval # NoPending =>
            /\ RunReturned
            /\ pending_approval.tool_name
                   \in get_active_policy(project).requires_approval
            /\ pending_approval.messages_snapshot # << >>
            /\ LET snap == pending_approval.messages_snapshot IN
                 snap[Len(snap)] = Turn("assistant", "tool_use", calls.loop, 0)
            /\ \A id \in ApprovalIds :
                 status[id] # "none" =>
                     context[id] = pending_approval.messages_snapshot)
    /\ [][pending_approval # NoPending =>
            /\ calls' = calls
            /\ tool_results' = tool_results
            /\ pending_approval' = pending_approval]_vars

\* C6 witness: the gated tool was the second block of a later round; the
\* approval row has been created from the returned snapshot.
C6_GatedSecondBlockStored ==
    /\ rpc = "awaiting_approval"
    /\ pending_approval.tool_use_id[2] = 2
    /\ pending_approval.tool_use_id[1] > 1

\* C8 as stated: a run whose usage exceeded the budget after round k has made,
\* when it ends, exactly one further provider call, without tools, and no
\* further call of the loop.
C8_BudgetExactlyOneFinal ==
    (RunEnded /\ over_at # 0) => (calls.final = 1 /\ calls.loop = over_at)

\* C8 amended: after the budget is exceeded at round k the loop makes no
\* further call of its own and at most one tools-disabled call; exactly one
\* when round k's response requested tools none of which was gated (a
\* completion or a gated tool at round k ends the run without it).
C8_BudgetStopsLoop ==
    over_at # 0 =>
        /\ calls.loop = over_at
        /\ calls.final <= 1
        /\ (RunEnded /\ stop_reason = "tool_use" /\ pending_approval = NoPending)
               => calls.final = 1
        /\ (stop_reason # "tool_use" \/ pending_approval # NoPending)
               => calls.final = 0

\* C8 witness: the budget was exceeded before the last round and the run ended
\* after its one tools-disabled call.
C8_BudgetFinalCallMade ==
    /\ rpc = "done"
    /\ over_at # 0
    /\ over_at < MAX_TOOL_ITERATIONS
    /\ calls.final = 1
    /\ calls.loop = over_at

\* C9 as stated: a run that made MAX_TOOL_ITERATIONS calls of the loop, each
\* requesting tools, has issued exactly one final tools-disabled call when it
\* returns.
C9_AllRoundsToolsThenFinal ==
    (RunReturned /\ calls.loop = MAX_TOOL_ITERATIONS /\ stop_reason = "tool_use")
        => calls.final = 1

\* C9 amended: the run always ends; it makes at most MAX_TOOL_ITERATIONS calls
\* of the loop and at most one tools-disabled call; when every call of the
\* loop requested tools and none of them was approval-gated it has made exactly
\* one tools-disabled call on return (a gated tool returns the pending
\* approval instead).
C9_LoopBoundedAndEnds ==
    /\ [](/\ calls.loop <= MAX_TOOL_ITERATIONS
          /\ iteration <= MAX_TOOL_ITERATIONS
          /\ calls.final <= 1
          /\ (RunReturned /\ stop_reason = "tool_use"
                 /\ pending_approval = NoPending) => calls.final = 1)
    /\ <>RunEnded

\* C9 witness: fifteen rounds of tools within budget, then the final call.
C9_RoundLimitReached ==
    /\ rpc = "done"
    /\ calls.loop = MAX_TOOL_ITERATIONS
    /\ over_at = 0
    /\ calls.final = 1

\* ------------------------------------------------------------------ C10
ProcessesOf(iid) == {x \in live : x.inst = iid}

\* C10: while the bot is up, an instance that projects hold references to
\* and that is in the instance table has exactly one live process and is
\* registered, however many projects were started on it; and once the last
\* project holding it has been stopped (no references left) its tools are
\* unregistered and its process is terminated.
C10_RefCountedSharing ==
    lifecycle = "up" =>
      \A iid \in InstanceIds :
        /\ (refcount[iid] # {} /\ instances[iid].present) =>
              /\ Cardinality(ProcessesOf(iid)) = 1
              /\ reg_instances[iid].registered
        /\ refcount[iid] = {} =>
              /\ ~reg_instances[iid].registered
              /\ ProcessesOf(iid) = {}

\* ------------------------------------------------------------------ C11
\* C11: every native tool X of an instance registered with a non-empty prefix
\* p is exposed as p+X, get_original_tool_name(p+X) = X, and a call_tool(p+X)
\* that dispatches does so on that instance's client with the native name X.
C11_NamespaceRoundTrip ==
    lifecycle = "up" =>
      \A iid \in InstanceIds :
        LET p == TOOL_PREFIX_MAP(mcp_instances[iid].type)
            entry == reg_instances[iid]
        IN (entry.registered /\ p # << >>) =>
             \A X \in entry.original_names :
                /\ p \o X \in all_tools
                /\ get_original_tool_name(Mgr, p \o X) = X
                /\ (last_call.dispatched /\ last_call.tool_name = p \o X) =>
                      /\ last_call.original_name = X
                      /\ last_call.client = iid

\* C12: a tool-level error never aborts the run: every dispatched (non-gated)
\* tool, failed or not, leaves the run in its block loop with one more
\* tool_result block carrying that tool_use id, the remaining blocks are still
\* to be processed, and the finished round hands all result blocks to the next
\* provider call.
C12_ToolErrorNeverAborts ==
    [][/\ (rpc = "blocks" /\ Len(tool_results') = Len(tool_results) + 1)
            => /\ rpc' = "blocks"
               /\ tool_blocks' = Tail(tool_blocks)
               /\ Len(result_blocks') = Len(result_blocks) + 1
               /\ result_blocks'[Len(result_blocks')].tool_use_id
                      = <<iteration + 1, Len(tool_results) + 1>>
               /\ SubSeq(result_blocks', 1, Len(result_blocks)) = result_blocks
       /\ (rpc = "blocks" /\ iteration' = iteration + 1)
            => /\ rpc' \in {"iter", "max_iter"}
               /\ Len(last_user_turn') = Len(result_blocks)
               /\ messages'[Len(messages')].kind = "tool_result"
      ]_vars

\* C12 witness: the first tool of a round failed, the second one was then
\* dispatched and succeeded.
C12_FailedToolThenNextTool ==
    /\ rpc = "blocks"
    /\ Len(result_blocks) = 2
    /\ result_blocks[1].is_error
    /\ ~result_blocks[2].is_error

\* C13 as stated: a provider error that aborts the run after a completed round
\* finds the user turn and the cost already persisted.
C13_PersistedBeforeAbort ==
    (rpc = "raised" /\ iteration >= 1)
        => (\E i \in 1..Len(db_log) : db_log[i] = "user")
           /\ (\E i \in 1..Len(db_log) : db_log[i] = "cost")

\* C14: the tools of one assistant turn are dispatched one at a time in request
\* order, and the tool_result blocks, in the list being built and in the user
\* turn that follows, are in the order of the tool_use blocks.
C14_ToolsInRequestOrder ==
    /\ [](/\ Len(result_blocks) = Len(tool_results)
          /\ \A i \in 1..Len(result_blocks) :
                 result_blocks[i].tool_use_id = <<iteration + 1, i>>
          /\ \A i \in 1..Len(last_user_turn) :
                 last_user_turn[i] = <<iteration, i>>)
    /\ [][(rpc = "blocks" /\ tool_results' # tool_results /\ rpc' = "blocks")
            => /\ tool_results' = Append(tool_results, Head(tool_blocks))
               /\ tool_blocks' = Tail(tool_blocks)
               /\ Len(result_blocks') = Len(result_blocks) + 1
         ]_vars

\* C14 witness: a user turn with the results of two tools has been appended.
C14_TwoResultsInTurn ==
    /\ rpc = "iter"
    /\ Len(last_user_turn) = 2

\* C15: a tool call that times out disconnects only the client it was
\* dispatched to and raises; while a client is disconnected every tool of its
\* instance still resolves to it, and a call_tool resolving to it makes exactly
\* one reconnect attempt, dispatching if and only if the reconnect succeeded
\* and otherwise raising the connect error; a call to a connected client makes
\* no reconnect attempt.
C15_TimeoutDisconnectsThenReconnects ==
    /\ [](\A iid \in InstanceIds :
            (instances[iid].present /\ ~instances[iid].session
                 /\ reg_instances[iid].registered) =>
               \A X \in reg_instances[iid].original_names :
                  get_client_for_tool(Mgr,
                      TOOL_PREFIX_MAP(mcp_instances[iid].type) \o X) = iid)
    /\ [][(lifecycle = "up" /\ lifecycle' = "up" /\ last_call'.client # "none")
            => LET c == last_call'.client
               IN /\ last_call'.result = "timeout" =>
                        /\ last_call'.dispatched
                        /\ ~instances'[c].session
                        /\ \A j \in InstanceIds \ {c} :
                               instances'[j] = instances[j]
                  /\ ~instances[c].session =>
                        /\ last_call'.reconnects = 1
                        /\ spawned' \in {spawned, spawned + 1}
                        /\ last_call'.dispatched <=> (spawned' = spawned + 1)
                        /\ ~last_call'.dispatched =>
                              /\ last_call'.result = "reconnect_failed"
                              /\ ~instances'[c].session
                  /\ instances[c].session =>
                        /\ last_call'.reconnects = 0
                        /\ spawned' = spawned
                        /\ last_call'.dispatched
         ]_vars

\* C15 witness: a call found its client disconnected (after a timeout, the
\* only way a registered client loses its session while the manager is up),
\* reconnected once and was dispatched.
C15_ReconnectedAfterTimeout ==
    /\ last_call.reconnects = 1
    /\ last_call.dispatched
    /\ last_call.result = "ok"
    /\ instances[last_call.client].session

C17_NoSummaryUpToThreshold ==
    (fpc # "called" /\ Len(arg_messages) <= SUMMARIZE_THRESHOLD)
        => /\ fpc = "returned"
           /\ returned = arg_messages
           /\ summarizer_calls = 0

C20_SummarizedAlternates ==
    Summarized =>
      /\ returned[1].role = "user"
      /\ \A i \in 1..(Len(returned) - 1) :
            returned[i].role # returned[i + 1].role

\* C20 witness: the retained suffix started with an assistant turn and held
\* two adjacent turns of one role; the list was summarized.
C20_IrregularSuffixSummarized ==
    /\ Summarized
    /\ arg_messages[Len(arg_messages) - KEEP_RECENT + 1].role = "assistant"
    /\ \E i \in (Len(arg_messages) - KEEP_RECENT + 1)..(Len(arg_messages) - 1) :
          arg_messages[i].role = arg_messages[i + 1].role

\* C21: the categories of a classification are a subset of
\* available_categories: those of the model's reply that are available, and
\* no others; a category that is not available is dropped and gives no prefix
\* to tool_prefixes.
C21_CategoriesWithinAvailable ==
    reply # NoReply =>
      /\ classified.categories \subseteq available_categories
      /\ reply.kind = "json" =>
            /\ classified.categories
                  = reply.categories \cap available_categories
            /\ build_tool_prefixes(classified.categories)
                  = build_tool_prefixes(reply.categories \cap available_categories)
      /\ \A c \in reply.categories \ available_categories :
            c \notin classified.categories

\* C21 witness: the model named an available category and two that are not
\* (one of them unknown to the metadata); only the available one was kept.
C21_UnavailableDiscarded ==
    /\ reply.kind = "json"
    /\ available_categories = {"gmail"}
    /\ reply.categories = {"gmail", "telegram", UnknownCategory}
    /\ classified.categories = {"gmail"}

\* C22: when the classifier call fails or its output cannot be parsed,
\* classify_request returns needs_tools = true, categories =
\* available_categories, is_simple = false, which is never the fast path.
C22_ClassifierFailureFallsBack ==
    reply.kind \in {"api_error", "not_json", "bad_shape"} =>
      /\ classified = [needs_tools |-> TRUE, is_simple |-> FALSE,
                       categories |-> available_categories]
      /\ ~takes_fast_path(classified)

\* C22 witness: the model call raised for a project with two categories.
C22_ApiErrorFellBack ==
    /\ reply.kind = "api_error"
    /\ available_categories = AllCategories
    /\ classified.needs_tools

\* the run went through _simple_response
FastPath == rpc = "simple" \/ calls.simple > 0

\* C23: the run takes the fast path exactly when the request is classified
\* simple with no tools needed; on it exactly one provider call, without
\* tools, is made after the classification, no tool list is built, no tool is
\* executed and no approval is raised.
C23_FastPathOneCallNoTools ==
    rpc \notin {"idle", "classify"} =>
      /\ FastPath <=> (classification.is_simple /\ ~classification.needs_tools)
      /\ FastPath =>
            /\ anthropic_tools = {}
            /\ approval_list = {}
            /\ calls.loop = 0 /\ calls.final = 0 /\ calls.simple <= 1
            /\ iteration = 0
            /\ tool_blocks = << >> /\ tool_results = << >>
            /\ result_blocks = << >>
            /\ pending_approval = NoPending
            /\ rpc \in {"simple", "done", "raised"}
            /\ rpc \in {"done", "raised"} <=> calls.simple = 1
      /\ ~FastPath => calls.simple = 0

\* C23 witness: a simple request of a project with tools was answered on the
\* fast path.
C23_FastPathAnswered ==
    /\ rpc = "done"
    /\ calls.simple = 1
    /\ get_project_tools(project) # {}
    /\ db_log = Persisted(<< >>)

\* the project's allowed tools whose name starts with a prefix of the
\* classification's categories
NarrowedTools ==
    {n \in get_project_tools(sel_project) :
        \E p \in build_tool_prefixes(classified.categories) : IsPrefix(p, n)}

\* C24: when tools are needed and narrowing the project's allowed tools by the
\* classifier's category prefixes gives nothing, the full allowed set of the
\* phase is offered; the offered set is empty only if the allowed set is.
C24_EmptyNarrowingOffersAll ==
    (selected /\ classified.needs_tools) =>
      /\ NarrowedTools = {} => offered = get_project_tools(sel_project)
      /\ offered = {} => get_project_tools(sel_project) = {}
      /\ offered \subseteq get_project_tools(sel_project)

\* C24 witness: the classifier asked for a category whose server is not
\* registered; nothing matched and all the allowed tools were offered.
C24_FellBackToAllTools ==
    /\ selected
    /\ classified.needs_tools
    /\ classified.categories # {}
    /\ NarrowedTools = {}
    /\ offered # {}
    /\ offered = get_project_tools(sel_project)

\* the last error the loop caught is an AuthenticationError
LastCaughtAuth == caught # << >> /\ caught[Len(caught)].kind = "auth"

\* C25: in _call_claude an authentication error leads to at most one
\* credential refresh and exactly one retry of the call, made with a rebuilt
\* client; without a refresher, when the refresh fails, or when the retried
\* call fails, the error leaves the function and no further call is made.
C25_AuthRefreshOnceRetryOnce ==
    /\ refreshes <= 1
    /\ retries <= 1
    /\ \A i \in 1..Len(caught) : caught[i].kind = "auth" => i = Len(caught)
    /\ ~LastCaughtAuth => refreshes = 0 /\ retries = 0
    /\ LastCaughtAuth =>
         /\ cc_pc # "try"
         /\ creates = Len(caught) + retries
         /\ retries = 1 => refreshes = 1 /\ rebuilds = 1
                           /\ cc_pc \in {"returned", "raised"}
         /\ cc_pc = "returned" => retries = 1
         /\ ~has_refresher => cc_pc = "raised" /\ surfaced = "auth"
                              /\ refreshes = 0 /\ retries = 0
         /\ surfaced = "refresh" => cc_pc = "raised" /\ refreshes = 1
                                    /\ rebuilds = 0 /\ retries = 0
         /\ (cc_pc = "raised" /\ has_refresher /\ surfaced # "refresh")
                => retries = 1

\* the retried call failed too, after a rate-limit retry of the loop
C25_RetryAfterRefreshFailed ==
    /\ cc_pc = "raised"
    /\ Len(caught) = 2
    /\ refreshes = 1
    /\ retries = 1
    /\ surfaced = "auth"

\* C26: a rate-limit error is retried while attempts remain (at most 3 extra
\* attempts), each retry after a sleep of the retry-after hint when there is
\* one and of 15 * 2^attempt seconds otherwise; with no attempt left the
\* rate-limit error leaves the function.
C26_RateLimitRetriedAfterHintOrBackoff ==
    \A i \in 1..Len(caught) :
        caught[i].kind = "rate_limit" =>
            IF i <= max_extra_retries
            THEN /\ Len(sleeps) >= i
                 /\ sleeps[i] = IF caught[i].retry_after # NoHint
                                THEN int(caught[i].retry_after).value
                                ELSE 15 * (2 ^ (i - 1))
            ELSE /\ cc_pc = "raised"
                 /\ surfaced = "rate_limit"
                 /\ Len(sleeps) = max_extra_retries

\* C27: a 529 overloaded error is retried after 10 * 2^attempt seconds, at
\* most 3 times, and then leaves the function.
C27_OverloadedRetriedThreeTimes ==
    /\ Len(sleeps) <= max_extra_retries
    /\ \A i \in 1..Len(caught) :
         (caught[i].kind = "status" /\ caught[i].status_code = 529) =>
             IF i <= max_extra_retries
             THEN Len(sleeps) >= i /\ sleeps[i] = 10 * (2 ^ (i - 1))
             ELSE /\ cc_pc = "raised"
                  /\ surfaced = "overloaded"
                  /\ creates = max_extra_retries + 1

\* four 529 answers in a row
C27_OverloadedSurfaced ==
    /\ cc_pc = "raised"
    /\ surfaced = "overloaded"
    /\ sleeps = <<10, 20, 40>>

\* an error that is neither 401, 429 nor 529
OtherError(e) ==
    \/ e.kind = "exception"
    \/ e.kind = "status" /\ e.status_code # 529

\* C28: any other provider error leaves the function at once: no sleep, no
\* refresh, no further call.
C28_OtherErrorSurfacesAtOnce ==
    \A i \in 1..Len(caught) :
        OtherError(caught[i]) =>
            /\ i = Len(caught)
            /\ cc_pc = "raised"
            /\ surfaced = ErrorName(caught[i])
            /\ Len(sleeps) = i - 1
            /\ creates = i
            /\ refreshes = 0

\* a 500 on the attempt that follows a retried 529
C28_ServerErrorAfterRetry ==
    /\ Len(caught) = 2
    /\ caught[1].status_code = 529
    /\ caught[2].status_code = 500
    /\ cc_pc = "raised"

\* C29: _truncate_tool_result with limit L returns a text of at most L
\* characters unchanged and otherwise exactly its first L characters followed
\* by the truncation marker; the content of every tool_result built by run or
\* by execute_approved_tool is the truncation of the tool's text at the
\* default limit.
C29_ToolResultTruncated ==
    tr_pc = "done" =>
        /\ site \in {"run", "execute_approved_tool"} => max_chars = DEFAULT_MAX_CHARS
        /\ Len(result_text) <= max_chars => tool_result_content = result_text
        /\ Len(result_text) > max_chars =>
               /\ Len(tool_result_content) = max_chars + Len(TruncationMarker)
               /\ SubSeq(tool_result_content, 1, max_chars)
                      = SubSeq(result_text, 1, max_chars)
               /\ SubSeq(tool_result_content, max_chars + 1,
                         Len(tool_result_content)) = TruncationMarker

\* run inserted the result of a tool whose text is longer than the limit
C29_LongResultCut ==
    /\ tr_pc = "done"
    /\ site = "run"
    /\ Len(result_text) > DEFAULT_MAX_CHARS
    /\ tool_result_content # result_text

\* C30: every mutation of the instance table, the reference sets and the
\* registry (by start_all, start_project, stop_project, stop_all and the
\* re-registration of call_tool) is made by an operation that holds the
\* manager's lock, and none is made while another of these operations is in
\* the middle of its body.
C30_MutationsUnderLock ==
    last_mutation.op # "none" =>
        /\ last_mutation.locked
        /\ last_mutation.during = {}

\* C38: one _call_claude makes at most 4 provider calls from its retry loop
\* and at most 1 more after a credential refresh, whatever mix of rate-limit
\* and overloaded errors it meets, and it ends by returning a response or by
\* raising, never by returning nothing.
C38_BoundedAttemptsThenEnds ==
    /\ [](/\ creates - retries <= max_extra_retries + 1
          /\ retries <= 1
          /\ Len(sleeps) <= max_extra_retries
          /\ cc_pc # "returned_none")
    /\ <>(cc_pc \in {"returned", "raised"})

\* 429, 529, 429 and a fourth error: the loop gave up after four calls
C38_MixedErrorsExhausted ==
    /\ cc_pc = "raised"
    /\ creates = max_extra_retries + 1
    /\ Len(caught) = max_extra_retries + 1
    /\ caught[1].kind = "rate_limit"
    /\ caught[2].kind = "status"
    /\ caught[3].kind = "rate_limit"
    /\ caught[4].status_code = 529

\* the callers whose create was sent with the expired token
FailedWithExpired ==
    {t \in Callers : sent_with[t] = 0 /\ rf_pc[t] \notin {"idle", "calling"}}

DeclaringInstances(pid, name) ==
    {i \in Range(mcp_services[pid]) :
        /\ reg_instances[i].registered
        /\ \E n \in reg_instances[i].original_names :
             TOOL_PREFIX_MAP(mcp_instances[i].type) \o n = name}

\* C32: call_tool given a project_id routes a tool name that registered
\* instances of the project declare (also when an instance of another project
\* registers the same name) to the client of an instance listed in that
\* project's mcp_services, and returns what that client's call gives.
C32_RoutedWithinProject ==
    (/\ lifecycle = "up"
     /\ last_call.project_id \in projects
     /\ DeclaringInstances(last_call.project_id, last_call.tool_name) # {})
        => /\ last_call.client \in Range(mcp_services[last_call.project_id])
           /\ last_call.result \in SessionOutcomes \cup {"reconnect_failed"}

\* C33: a tool that run executes for a project is dispatched to an instance
\* listed in the project's mcp_services and is in the allowed tool set of the
\* project's phase (get_project_tools); a requested name outside that set is
\* not executed.
C33_ExecutedToolsAllowedAndOwned ==
    (tool_block # NoBlock /\ ~tool_block.gated /\ last_call.dispatched)
        => /\ last_call.client \in Range(mcp_services[tool_block.project_id])
           /\ tool_block.tool_name \in tool_block.allowed

\* C34: in the message list sent to the provider after an approval is
\* resumed, every tool_use block of an assistant turn (the turn that requested
\* the gated tool, with whatever it requested before or after it) has a
\* tool_result block with the same id in the user turn that follows.
C34_EveryToolUseAnswered ==
    \A i \in 1..Len(rs_sent) :
        rs_sent[i].tool_use # << >> =>
            /\ i < Len(rs_sent)
            /\ rs_sent[i + 1].role = "user"
            /\ \A k \in 1..Len(rs_sent[i].tool_use) :
                 rs_sent[i].tool_use[k].id \in Range(rs_sent[i + 1].tool_result)

\* C35: a step that unregisters an instance (stop_project's
\* unregister_instance) leaves every tool of every instance that stays
\* registered resolvable by get_client_for_tool and listed by
\* filter_tools_for_instances, also when two instances of one type declare
\* the same names under the same prefix.
C35_UnregisterKeepsOtherTools ==
    [][(\E gone \in InstanceIds :
           reg_instances[gone].registered /\ ~reg_instances'[gone].registered)
       => \A kept \in InstanceIds :
             (reg_instances[kept].registered /\ reg_instances'[kept].registered)
                => \A n \in reg_instances'[kept].original_names :
                      LET name == TOOL_PREFIX_MAP(mcp_instances'[kept].type) \o n
                      IN /\ tool_to_client'[name] # "none"
                         /\ name \in all_tools']_vars

\* C37: after on_removemcp_confirm (the step that takes an instance out of
\* the mcp_services of a project that stays), the project is no longer in the
\* instance's reference set, and an instance that no other project lists is
\* no longer in the instance table nor registered.
C37_RemovedInstanceReleased ==
    [][\A pid \in Projects, iid \in InstanceIds :
          (/\ pid \in projects'
           /\ iid \in Range(mcp_services[pid])
           /\ iid \notin Range(mcp_services'[pid]))
             => /\ pid \notin refcount'[iid]
                /\ (\A q \in projects' \ {pid} : iid \notin Range(mcp_services'[q]))
                      => /\ ~instances'[iid].present
                         /\ ~reg_instances'[iid].registered]_vars

\* C40: when the start of an instance fails, start_all and start_project do
\* not raise, the failed instance is in neither the instance table nor the
\* registry, the other instances of the operation are still started, and a
\* later start_project that lists the id attempts its start again.
C40_FailedStartIsolated ==
    [][LET start_all_step == lifecycle = "boot" /\ lifecycle' = "up"
           started_project == start_tasks \ start_tasks'
       IN (start_all_step \/ started_project # {}) =>
            /\ ~st_log'.raised
            /\ \A i \in st_log'.failed :
                  ~instances'[i].present /\ ~reg_instances'[i].registered
            /\ \A i \in Range(st_log'.attempted) \ st_log'.failed :
                  instances'[i].present /\ reg_instances'[i].registered
            /\ start_all_step =>
                  Range(st_log'.attempted) =
                      {i \in InstanceIds :
                          /\ mcp_instances[i].configured
                          /\ \E p \in projects : i \in Range(mcp_services[p])}
            /\ \A pid \in started_project :
                  \A i \in Range(mcp_services[pid]) :
                     (mcp_instances[i].configured /\ ~instances[i].present)
                        => i \in Range(st_log'.attempted)]_vars

\* a start_project that retried an instance whose earlier start had failed,
\* had one start fail and started another instance
C40_FailedThenRetried ==
    /\ st_log.op = "start_project"
    /\ st_log.retried # {}
    /\ st_log.failed # {}
    /\ \E i \in Range(st_log.attempted) \ st_log.failed : instances[i].present

\* C36: whatever the interleaving of start_project, stop_project and
\* call_tool (a call_tool reconnecting a disconnected client while
\* stop_project runs for the last project that refers to it included), once
\* no operation is in flight or pending every instance id in the registry is in the
\* instance table and has a non-empty reference set.
C36_RegisteredInstancesOwned ==
    (sp = NoStartProject /\ ct = NoCallTool /\ sa = NoStopAll /\ start_tasks = {})
        => \A i \in InstanceIds :
              reg_instances[i].registered
                 => instances[i].present /\ refcount[i] # {}

\* C39: every message list run passes to the provider starts with a user
\* turn and strictly alternates the roles, whatever history the earlier runs,
\* approval pauses, approvals and rejections have persisted and after every
\* trim_messages.
C39_SentListsAlternate ==
    h_sent # << >> =>
        /\ h_sent[1].role = "user"
        /\ \A i \in 1..(Len(h_sent) - 1) : h_sent[i].role # h_sent[i + 1].role

============================================================
